---- MODULE Spec2Model ----
(***************************************************************************)
(* Multi-account maintenance-window patch reporting (EC2_Patching).        *)
(*                                                                         *)
(*   get_patch_status_counts  Execution Status Resolver  (SpecStatus)      *)
(*   get_target_count         Target Resolver            (SpecTarget)      *)
(*   post_patch_function      post-patch phase, Session Cache (SpecPost)   *)
(*   main                     pre-patch phase            (SpecPre)         *)
(*                                                                         *)
(* The AWS clients are collaborators: every answer they give is an input,  *)
(* either a value or a raised exception.  An answer is a record            *)
(* [ok |-> TRUE, val |-> v] or [ok |-> FALSE].                             *)
(***************************************************************************)
EXTENDS Integers, Sequences, FiniteSets, TLC

VARIABLES
    stIn,        \* SpecStatus: the window id and the SSM answers of one call
    stOut,       \* SpecStatus: what get_patch_status_counts returned
    tgIn,        \* SpecTarget: the SSM / EC2 / resource-groups answers of one call
    tgOut,       \* SpecTarget: what get_target_count returned
    post,        \* SpecPost: the locals of post_patch_function and its effects
    pre          \* SpecPre: the locals of main and its effects

vars == <<stIn, stOut, tgIn, tgOut, post, pre>>

Idle == [pc |-> "idle"]

(***************************************************************************)
(* Bounds of the model.                                                    *)
(***************************************************************************)
MaxInvs == 3        \* task invocations of the patch task
MaxResults == 3     \* per-instance results of command c1
MaxRules == 3       \* target rules of one window, over all its MW targets
MaxTargets == 2     \* MW targets of one window
MaxRows == 4        \* pre-patch rows in the report store
MaxAccounts == 2    \* rows of accounts.csv
MaxWindows == 2     \* maintenance windows listed for one account
MaxListed == 4                    \* maintenance windows listed over all accounts

(***************************************************************************)
(* Generic helpers.                                                        *)
(***************************************************************************)
Ok(v) == [ok |-> TRUE, val |-> v]
Raised == [ok |-> FALSE]

SeqsUpTo(S, n) == UNION {[1..k -> S] : k \in 0..n}

Range(s) == {s[i] : i \in 1..Len(s)}

\* str.startswith
StartsWith(s, p) == Len(s) >= Len(p) /\ SubSeq(s, 1, Len(p)) = p

\* Every way of cutting a sequence into consecutive pages (pages may not be
\* empty, except that the empty sequence is one empty page).
RECURSIVE Pagings(_)
Pagings(s) ==
    IF s = <<>> THEN {<<>>}
    ELSE UNION {{<<SubSeq(s, 1, k)>> \o rest : rest \in Pagings(SubSeq(s, k + 1, Len(s)))} :
                  k \in 1..Len(s)}

OkPages(pages) == [i \in 1..Len(pages) |-> Ok(pages[i])]

(***************************************************************************)
(* Identifiers are character sequences, so that startswith is computed.    *)
(***************************************************************************)
MwPrefix == <<"m", "w", "-">>
Wid1 == <<"m", "w", "-", "1">>
Wid2 == <<"m", "w", "-", "2">>
WidBad == <<"m", "w", "1">>

PatchTaskArn == "AWS-RunPatchBaseline"
FailureStatuses == {"Failed", "TimedOut", "Cancelled", "ExecutionTimedOut"}
Statuses == {"Success", "InProgress"} \cup FailureStatuses

(***************************************************************************)
(* The Parameters payload of a task invocation.  The raw value is          *)
(*   [raw |-> "absent"]              no Parameters member                  *)
(*   [raw |-> "notstr"]              a value that is not a string          *)
(*   [raw |-> "text", text |-> t]    a string; t = <<>> is the empty one   *)
(* and a text is a sequence of JSON tokens.  json_loads parses the         *)
(* grammar   value ::= null | num | "str":w | [ value,* ] | { k : value,* }*)
(* over the tokens and raises JSONDecodeError on anything else.            *)
(***************************************************************************)
JNull == [t |-> "null"]
JNum == [t |-> "num"]
JStr(w) == [t |-> "str", s |-> w]
JList(items) == [t |-> "list", items |-> items]
JObj(keys, m) == [t |-> "obj", keys |-> keys, m |-> m]

DecodeError == [t |-> "JSONDecodeError"]
IsDecodeError(v) == v.t = "JSONDecodeError"

\* Tokens: "{" "}" "[" "]" "," ":" "null" "0", and any other string w is
\* the string literal "w".
Punct == {"{", "}", "[", "]", ",", ":"}
IsStrTok(tok) == tok \notin Punct \cup {"null", "0"}

\* ParseValue(toks, i) = [v |-> parsed value or DecodeError, next |-> index
\* after it].  Lists and objects hold at most the nesting the payloads use.
RECURSIVE ParseValue(_, _), ParseItems(_, _, _), ParseMembers(_, _, _, _)
ParseValue(toks, i) ==
    IF i > Len(toks) THEN [v |-> DecodeError, next |-> i]
    ELSE LET tok == toks[i] IN
         CASE tok = "null" -> [v |-> JNull, next |-> i + 1]
           [] tok = "0" -> [v |-> JNum, next |-> i + 1]
           [] tok = "[" ->
                IF i + 1 <= Len(toks) /\ toks[i + 1] = "]"
                THEN [v |-> JList(<<>>), next |-> i + 2]
                ELSE ParseItems(toks, i + 1, <<>>)
           [] tok = "{" ->
                IF i + 1 <= Len(toks) /\ toks[i + 1] = "}"
                THEN [v |-> JObj({}, <<>>), next |-> i + 2]
                ELSE ParseMembers(toks, i + 1, <<>>, <<>>)
           [] tok \in {"]", "}", ",", ":"} -> [v |-> DecodeError, next |-> i]
           [] OTHER -> [v |-> JStr(tok), next |-> i + 1]

ParseItems(toks, i, acc) ==
    LET e == ParseValue(toks, i) IN
    IF IsDecodeError(e.v) \/ e.next > Len(toks) THEN [v |-> DecodeError, next |-> i]
    ELSE IF toks[e.next] = "," THEN ParseItems(toks, e.next + 1, Append(acc, e.v))
    ELSE IF toks[e.next] = "]" THEN [v |-> JList(Append(acc, e.v)), next |-> e.next + 1]
    ELSE [v |-> DecodeError, next |-> i]

\* ks: the member names in order, vs: their values (a later duplicate wins,
\* as in json.loads).
ParseMembers(toks, i, ks, vs) ==
    IF i + 1 > Len(toks) \/ ~IsStrTok(toks[i]) \/ toks[i + 1] # ":"
    THEN [v |-> DecodeError, next |-> i]
    ELSE LET e == ParseValue(toks, i + 2)
             ks2 == Append(ks, toks[i])
             vs2 == Append(vs, e.v)
             Last(k) == CHOOSE j \in 1..Len(ks2) :
                           ks2[j] = k /\ \A l \in (j + 1)..Len(ks2) : ks2[l] # k
         IN IF IsDecodeError(e.v) \/ e.next > Len(toks) THEN [v |-> DecodeError, next |-> i]
            ELSE IF toks[e.next] = "," THEN ParseMembers(toks, e.next + 1, ks2, vs2)
            ELSE IF toks[e.next] = "}"
                 THEN [v |-> JObj(Range(ks2), [k \in Range(ks2) |-> vs2[Last(k)]]),
                       next |-> e.next + 1]
            ELSE [v |-> DecodeError, next |-> i]

\* json.loads: the whole text must be one value.
json_loads(toks) ==
    LET e == ParseValue(toks, 1) IN
    IF ~IsDecodeError(e.v) /\ e.next = Len(toks) + 1 THEN e.v ELSE DecodeError

(***************************************************************************)
(* get_patch_status_counts: the Execution Status Resolver.                 *)
(*                                                                         *)
(* api is the SSM client's answers:                                        *)
(*   api.executions[window_id]   answer: sequence of                       *)
(*                                [WindowExecutionId, StartTime]           *)
(*   api.tasks[execution_id]     answer: sequence of                       *)
(*                                [TaskArn, TaskExecutionId]               *)
(*   api.invocations[<<execution_id, task_id>>]   sequence of page answers,*)
(*                                a page a sequence of                     *)
(*                                [Parameters, ExecutionId]                *)
(*   api.commands[command_id]    sequence of page answers, a page a        *)
(*                                sequence of [InstanceId, Status]         *)
(* The loop state st = [success, failure, calls, exc]: the two counters,   *)
(* the lookups made so far and whether an exception is propagating.        *)
(***************************************************************************)
ExecLimit == 10
NoCommand == ""

Call(name, arg) == [api |-> name, arg |-> arg]
Raise(st) == [st EXCEPT !.exc = TRUE]

\* dict.get(key, default) on a parsed JSON object
DictGet(obj, key, default) == IF key \in obj.keys THEN obj.m[key] ELSE default

\* The strings of the model that have "Install" as a substring.
HasInstallSubstring(w) == w \in {"Install", "PreInstall"}

OperationOfDecodeRaises(raw_params) ==
    IF raw_params.raw = "text" /\ raw_params.text # <<>>
    THEN LET parsed == json_loads(raw_params.text) IN
         IF IsDecodeError(parsed) \/ parsed.t # "obj" THEN [exc |-> TRUE]
         ELSE LET params == DictGet(parsed, "parameters", JObj({}, <<>>)) IN
              IF params.t # "obj" THEN [exc |-> TRUE]
              ELSE [exc |-> FALSE, op |-> DictGet(params, "Operation", JList(<<>>))]
    ELSE [exc |-> FALSE, op |-> JList(<<>>)]

\* The operation list of one invocation: [exc |-> FALSE, op |-> value], or
\* [exc |-> TRUE] when an AttributeError escapes the JSONDecodeError handler.
OperationOf(raw_params) ==
    IF raw_params.raw = "text" /\ raw_params.text # <<>>
    THEN LET parsed == json_loads(raw_params.text) IN
         IF IsDecodeError(parsed) THEN [exc |-> FALSE, op |-> JList(<<>>)]
         ELSE IF parsed.t # "obj" THEN [exc |-> TRUE]
         ELSE LET params == DictGet(parsed, "parameters", JObj({}, <<>>)) IN
              IF params.t # "obj" THEN [exc |-> TRUE]
              ELSE [exc |-> FALSE, op |-> DictGet(params, "Operation", JList(<<>>))]
    ELSE [exc |-> FALSE, op |-> JList(<<>>)]

\* "Install" in operation: [exc |-> FALSE, val |-> bool], or [exc |-> TRUE]
\* (TypeError) when the value is no container.
ContainsInstall(op) ==
    CASE op.t = "list" -> [exc |-> FALSE, val |-> JStr("Install") \in Range(op.items)]
      [] op.t = "str" -> [exc |-> FALSE, val |-> HasInstallSubstring(op.s)]
      [] op.t = "obj" -> [exc |-> FALSE, val |-> "Install" \in op.keys]
      [] OTHER -> [exc |-> TRUE]

\* The classification of one per-instance command result.
TallyMutantInProgress(st, inst_status) ==
    IF inst_status = "Success" THEN [st EXCEPT !.success = @ + 1]
    ELSE [st EXCEPT !.failure = @ + 1]

Tally(st, inst_status) ==
    IF inst_status = "Success" THEN [st EXCEPT !.success = @ + 1]
    ELSE IF inst_status \in FailureStatuses THEN [st EXCEPT !.failure = @ + 1]
    ELSE st

RECURSIVE CmdInvLoop(_, _, _)
CmdInvLoop(st, cmd_page, i) ==
    IF i > Len(cmd_page) THEN st
    ELSE CmdInvLoop(Tally(st, cmd_page[i].Status), cmd_page, i + 1)

RECURSIVE CmdPageLoop(_, _, _)
CmdPageLoop(st, pages, k) ==
    IF k > Len(pages) THEN st
    ELSE IF ~pages[k].ok THEN Raise(st)
    ELSE CmdPageLoop(CmdInvLoop(st, pages[k].val, 1), pages, k + 1)

\* Whether an invocation passes the Install filter (when nothing raises).
KeepsScanMutant(inv) == TRUE

KeepsInvocation(inv) ==
    LET o == OperationOf(inv.Parameters) IN
    ~o.exc /\ ~ContainsInstall(o.op).exc /\ ContainsInstall(o.op).val

\* The body of "for inv in invocations".
InvStepMissingIdRaises(st, inv, api) ==
    LET o == OperationOf(inv.Parameters) IN
    IF o.exc \/ ContainsInstall(o.op).exc THEN Raise(st)
    ELSE IF ~KeepsInvocation(inv) THEN st
    ELSE IF inv.ExecutionId = NoCommand THEN Raise(st)
    ELSE CmdPageLoop(
            [st EXCEPT !.calls = Append(@, Call("list_command_invocations", inv.ExecutionId))],
            api.commands[inv.ExecutionId], 1)

InvStep(st, inv, api) ==
    LET o == OperationOf(inv.Parameters) IN
    IF o.exc \/ ContainsInstall(o.op).exc THEN Raise(st)
    ELSE IF ~KeepsInvocation(inv) THEN st
    ELSE IF inv.ExecutionId = NoCommand THEN st
    ELSE CmdPageLoop(
            [st EXCEPT !.calls = Append(@, Call("list_command_invocations", inv.ExecutionId))],
            api.commands[inv.ExecutionId], 1)

RECURSIVE InvLoop(_, _, _, _)
InvLoop(st, invocations, i, api) ==
    IF i > Len(invocations) \/ st.exc THEN st
    ELSE InvLoop(InvStep(st, invocations[i], api), invocations, i + 1, api)

RECURSIVE InvPageLoop(_, _, _, _)
InvPageLoop(st, pages, k, api) ==
    IF k > Len(pages) \/ st.exc THEN st
    ELSE IF ~pages[k].ok THEN Raise(st)
    ELSE InvPageLoop(InvLoop(st, pages[k].val, 1, api), pages, k + 1, api)

\* The body of "for task in tasks".
TaskStepAnyTask(st, task, execution_id, api) ==
    InvPageLoop(
        [st EXCEPT !.calls = Append(@,
            Call("describe_maintenance_window_execution_task_invocations",
                 <<execution_id, task.TaskExecutionId>>))],
        api.invocations[<<execution_id, task.TaskExecutionId>>], 1, api)

TaskStep(st, task, execution_id, api) ==
    IF task.TaskArn # PatchTaskArn THEN st
    ELSE InvPageLoop(
            [st EXCEPT !.calls = Append(@,
                Call("describe_maintenance_window_execution_task_invocations",
                     <<execution_id, task.TaskExecutionId>>))],
            api.invocations[<<execution_id, task.TaskExecutionId>>], 1, api)

RECURSIVE TaskLoop(_, _, _, _, _)
TaskLoop(st, tasks, i, execution_id, api) ==
    IF i > Len(tasks) \/ st.exc THEN st
    ELSE TaskLoop(TaskStep(st, tasks[i], execution_id, api), tasks, i + 1, execution_id, api)

\* executions.sort(key=StartTime, reverse=True): a stable sort, so equal
\* start times keep their listing order.
RECURSIVE InsertDesc(_, _)
InsertDesc(sorted, e) ==
    IF sorted = <<>> THEN <<e>>
    ELSE IF Head(sorted).StartTime >= e.StartTime
         THEN <<Head(sorted)>> \o InsertDesc(Tail(sorted), e)
         ELSE <<e>> \o sorted

RECURSIVE SortByStartTimeDesc(_)
SortByStartTimeDesc(s) ==
    IF s = <<>> THEN <<>>
    ELSE InsertDesc(SortByStartTimeDesc(SubSeq(s, 1, Len(s) - 1)), s[Len(s)])

\* describe_maintenance_window_executions(WindowId, MaxResults)
ListExecutions(api, window_id, max_results) ==
    LET a == api.executions[window_id] IN
    IF ~a.ok THEN a
    ELSE Ok(SubSeq(a.val, 1, IF Len(a.val) < max_results THEN Len(a.val) ELSE max_results))

None == [kind |-> "None"]
Pair(s, f) == [kind |-> "pair", success |-> s, failure |-> f]

\* After the guard and the execution listing.
EmptyExecutionsMutant(executions) == FALSE

NoExecutions(executions) == executions = <<>>

\* "return success, failure", or the except clause, which logs and falls
\* off the end of the function.
ReturnTallySoFar(st) == Pair(st.success, st.failure)

ReturnTally(st) == IF st.exc THEN None ELSE Pair(st.success, st.failure)

\* executions.sort(...); executions[0]
LatestExecutionLastOfTies(executions) ==
    LET i == CHOOSE i \in 1..Len(executions) :
                /\ \A j \in 1..Len(executions) : executions[j].StartTime <= executions[i].StartTime
                /\ \A j \in (i + 1)..Len(executions) : executions[j].StartTime < executions[i].StartTime
    IN executions[i]

LatestExecution(executions) == SortByStartTimeDesc(executions)[1]

\* "if not window_id.startswith('mw-')".
InvalidWindowIdNever(window_id) == FALSE

InvalidWindowId(window_id) == ~StartsWith(window_id, MwPrefix)

get_patch_status_counts(api, window_id) ==
    IF InvalidWindowId(window_id) THEN [ret |-> Pair(0, 0), calls |-> <<>>]
    ELSE
    LET listed == ListExecutions(api, window_id, ExecLimit)
        calls1 == <<Call("describe_maintenance_window_executions", window_id)>>
    IN
    IF ~listed.ok THEN [ret |-> None, calls |-> calls1]
    ELSE IF NoExecutions(listed.val) THEN [ret |-> Pair(0, 0), calls |-> calls1]
    ELSE IF listed.val = <<>> THEN [ret |-> None, calls |-> calls1]  \* executions[0]: IndexError
    ELSE
    LET execution_id == LatestExecution(listed.val).WindowExecutionId
        calls2 == Append(calls1,
                    Call("describe_maintenance_window_execution_tasks", execution_id))
        tasks == api.tasks[execution_id]
    IN
    IF ~tasks.ok THEN [ret |-> None, calls |-> calls2]
    ELSE
    LET st == TaskLoop([success |-> 0, failure |-> 0, calls |-> calls2, exc |-> FALSE],
                       tasks.val, 1, execution_id, api)
    IN [ret |-> ReturnTally(st), calls |-> st.calls]


(***************************************************************************)
(* SpecStatus: one call of get_patch_status_counts on bounded answers.     *)
(***************************************************************************)
ExecIds == {"e1", "e2"}
TaskIds == {"t1", "t2"}
CmdIds == {"c1", "c2"}
StatusWids == {Wid1, WidBad}
AllWids == {Wid1, Wid2, WidBad}

Text(toks) == [raw |-> "text", text |-> toks]
InstallText == Text(<<"{", "parameters", ":", "{", "Operation", ":",
                      "[", "Install", "]", "}", "}">>)
ScanText == Text(<<"{", "parameters", ":", "{", "Operation", ":",
                   "[", "Scan", "]", "}", "}">>)

Inv(params, command_id) == [Parameters |-> params, ExecutionId |-> command_id]
Exec(id, start) == [WindowExecutionId |-> id, StartTime |-> start]
Task(arn, id) == [TaskArn |-> arn, TaskExecutionId |-> id]
Result(k, status) == [InstanceId |-> <<"i", k>>, Status |-> status]

\* All in one page, or one element per page.
TwoPagings(s) == {<<s>>, [i \in 1..Len(s) |-> <<s[i]>>]}

\* The page answers of a paginator: the pages, then possibly a failing fetch.
WithFailure(pages, fails) == IF fails THEN Append(OkPages(pages), Raised) ELSE OkPages(pages)

TallyInvs == {Inv(InstallText, "c1"), Inv(InstallText, "c2"),
              Inv(ScanText, "c1"), Inv(InstallText, NoCommand)}

\* One execution, one patch task, with the given page answers of the task's
\* invocations and of command c1.  Command c2 reports instance 3 in progress.
TallyApi(inv_pages, c1_pages) ==
    [executions |-> [w \in AllWids |-> Ok(<<Exec("e1", 5)>>)],
     tasks |-> [e \in ExecIds |-> Ok(<<Task(PatchTaskArn, "t1")>>)],
     invocations |-> [k \in ExecIds \X TaskIds |-> inv_pages],
     commands |-> [c \in CmdIds |->
                      IF c = "c1" THEN c1_pages
                      ELSE OkPages(<<<<Result(3, "InProgress")>>>>)]]

\* Pages of statuses as pages of per-instance results.
ResultPages(rp) ==
    [j \in 1..Len(rp) |->
        [i \in 1..Len(rp[j]) |-> Result(IF Len(rp) = 1 THEN i ELSE j, rp[j][i])]]

FixedInvPages ==
    {<<<<Inv(InstallText, "c1"), Inv(InstallText, "c2")>>>>,
     <<<<Inv(InstallText, "c1")>>, <<Inv(ScanText, "c1")>>>>,
     <<<<Inv(InstallText, "c1")>>, <<Inv(InstallText, "c1")>>>>}

FixedResultPages ==
    {<<<<"Success", "Failed">>>>, <<<<"Success">>, <<"TimedOut">>>>, <<>>}

\* Every fetch succeeds.  The invocations vary against a few result tables
\* of command c1, and the results of command c1 vary against a few
\* invocation lists.
TallyInputs(max_invs, max_results) ==
    {[window_id |-> Wid1,
      api |-> TallyApi(WithFailure(ip, FALSE), WithFailure(ResultPages(rp), FALSE))] :
        ip \in UNION {TwoPagings(invs) : invs \in SeqsUpTo(TallyInvs, max_invs)},
        rp \in FixedResultPages}
    \cup
    {[window_id |-> Wid1,
      api |-> TallyApi(WithFailure(ip, FALSE), WithFailure(ResultPages(rp), FALSE))] :
        ip \in FixedInvPages,
        rp \in UNION {TwoPagings(rs) : rs \in SeqsUpTo(Statuses, max_results)}}

\* The same with a fetch that fails after the last page of the invocations
\* or of the results of command c1.
FailingInputs(max_invs) ==
    {[window_id |-> Wid1,
      api |-> TallyApi(WithFailure(ip, fail = "invocations"),
                       WithFailure(ResultPages(<<<<"Success">>, <<"Failed">>>>),
                                   fail = "commands"))] :
        ip \in UNION {TwoPagings(invs) : invs \in SeqsUpTo(TallyInvs, max_invs)},
        fail \in {"invocations", "commands"}}

ExecCases ==
    {Raised, Ok(<<>>), Ok(<<Exec("e1", 5)>>),
     Ok(<<Exec("e1", 5), Exec("e2", 7)>>), Ok(<<Exec("e2", 7), Exec("e1", 5)>>),
     Ok(<<Exec("e1", 5), Exec("e2", 5)>>), Ok(<<Exec("e2", 5), Exec("e1", 5)>>)}

TaskCases ==
    {Raised, Ok(<<>>), Ok(<<Task(PatchTaskArn, "t1")>>), Ok(<<Task("AWS-RunShellScript", "t1")>>),
     Ok(<<Task("AWS-RunShellScript", "t2"), Task(PatchTaskArn, "t1")>>),
     Ok(<<Task(PatchTaskArn, "t1"), Task(PatchTaskArn, "t2")>>)}

\* The window id, the execution listing and the tasks of execution e1 vary;
\* every task has Install invocations, so each path has its own tally.
SelectionInputs ==
    {[window_id |-> w,
      api |-> [executions |-> [x \in AllWids |-> ex],
               tasks |-> [e \in ExecIds |->
                             IF e = "e1" THEN tk ELSE Ok(<<Task(PatchTaskArn, "t2")>>)],
               invocations |-> [k \in ExecIds \X TaskIds |->
                    CASE k = <<"e1", "t1">> -> OkPages(<<<<Inv(InstallText, "c1")>>>>)
                      [] k = <<"e1", "t2">> -> OkPages(<<<<Inv(InstallText, "c2")>>>>)
                      [] k = <<"e2", "t2">> ->
                            OkPages(<<<<Inv(InstallText, "c2")>>, <<Inv(InstallText, "c2")>>>>)
                      [] OTHER -> OkPages(<<>>)],
               commands |-> [c \in CmdIds |->
                    IF c = "c1"
                    THEN OkPages(<<<<Result(1, "Success"), Result(2, "Failed")>>>>)
                    ELSE OkPages(<<<<Result(3, "Failed")>>>>)]]] :
        w \in StatusWids, ex \in ExecCases, tk \in TaskCases}

\* Payloads that json.loads rejects.
UnparsableTexts ==
    {Text(<<"{", "parameters">>), Text(<<"[", "Install">>), Text(<<"}">>),
     Text(<<"{", "parameters", ":", "{", "Operation", ":", "[", "Install", "]", "}">>)}

\* Payloads that json.loads accepts without the shape
\* {"parameters": {"Operation": [...]}}.
WrongShapeTexts ==
    {Text(<<"[", "Install", "]">>), Text(<<"0">>), Text(<<"null">>), Text(<<"Install">>),
     Text(<<"{", "}">>),
     Text(<<"{", "parameters", ":", "[", "Install", "]", "}">>),
     Text(<<"{", "parameters", ":", "null", "}">>),
     Text(<<"{", "parameters", ":", "{", "}", "}">>),
     Text(<<"{", "parameters", ":", "{", "Operation", ":", "Install", "}", "}">>),
     Text(<<"{", "parameters", ":", "{", "Operation", ":", "Scan", "}", "}">>),
     Text(<<"{", "parameters", ":", "{", "Operation", ":", "0", "}", "}">>),
     Text(<<"{", "parameters", ":", "{", "Operation", ":", "null", "}", "}">>),
     Text(<<"{", "parameters", ":", "{", "Operation", ":", "{", "Install", ":", "0", "}", "}", "}">>)}

Payloads ==
    UnparsableTexts \cup WrongShapeTexts \cup {Text(<<>>), [raw |-> "absent"], [raw |-> "notstr"]}

\* One invocation with the payload and command c1 (a success and a failure)
\* before or after an Install invocation of command c2 (a failure).
PayloadInputs ==
    {[window_id |-> Wid1,
      api |-> [TallyApi(OkPages(<<IF first THEN <<Inv(pl, "c1"), Inv(InstallText, "c2")>>
                                             ELSE <<Inv(InstallText, "c2"), Inv(pl, "c1")>>>>),
                        OkPages(<<<<Result(1, "Success"), Result(2, "Failed")>>>>))
               EXCEPT !.commands["c2"] = OkPages(<<<<Result(3, "Failed")>>>>)]] :
        pl \in Payloads, first \in BOOLEAN}

StatusInputs(max_invs, max_results) ==
    TallyInputs(max_invs, max_results) \cup FailingInputs(max_invs)
        \cup SelectionInputs \cup PayloadInputs

NotRun == [ret |-> [kind |-> "not run"], calls |-> <<>>]

InitStatus ==
    /\ stIn \in StatusInputs(MaxInvs, MaxResults)
    /\ stOut = NotRun
    /\ tgIn = Idle /\ tgOut = Idle /\ post = Idle /\ pre = Idle

CallStatus ==
    /\ stOut = NotRun
    /\ stOut' = get_patch_status_counts(stIn.api, stIn.window_id)
    /\ UNCHANGED <<stIn, tgIn, tgOut, post, pre>>

NextStatus == CallStatus

SpecStatus == InitStatus /\ [][NextStatus]_vars


(***************************************************************************)
(* Properties of get_patch_status_counts (checked under SpecStatus).       *)
(* The expectations are stated over positions of the answers, not by the   *)
(* resolver's loops.                                                       *)
(***************************************************************************)
StatusRan == stOut # NotRun
WellFormedWid == StartsWith(stIn.window_id, MwPrefix)
Listing == stIn.api.executions[stIn.window_id]

\* The listed execution with the maximum start time, the earliest such.
SelectedExecution ==
    LET l == Listing.val
        i == CHOOSE i \in 1..Len(l) :
                /\ \A j \in 1..Len(l) : l[j].StartTime <= l[i].StartTime
                /\ \A j \in 1..(i - 1) : l[j].StartTime < l[i].StartTime
    IN l[i].WindowExecutionId

ExecutionSelected == WellFormedWid /\ Listing.ok /\ Listing.val # <<>>

\* An invocation whose payload is an object holding parameters.Operation as
\* a list.
HasOperationList(inv) ==
    /\ inv.Parameters.raw = "text"
    /\ LET v == json_loads(inv.Parameters.text) IN
       /\ v.t = "obj" /\ "parameters" \in v.keys
       /\ v.m["parameters"].t = "obj" /\ "Operation" \in v.m["parameters"].keys
       /\ v.m["parameters"].m["Operation"].t = "list"

OperationItems(inv) == Range(json_loads(inv.Parameters.text).m["parameters"].m["Operation"].items)

IsInstallInvocation(inv) == HasOperationList(inv) /\ JStr("Install") \in OperationItems(inv)
IsNonInstallInvocation(inv) == HasOperationList(inv) /\ JStr("Install") \notin OperationItems(inv)

\* Positions <<t, p, i>>: invocation i of page p of the invocations of task t
\* of the selected execution, for the patch-baseline tasks.
InvPages(t) ==
    stIn.api.invocations[<<SelectedExecution,
                           stIn.api.tasks[SelectedExecution].val[t].TaskExecutionId>>]

InvPositions ==
    LET tasks == stIn.api.tasks[SelectedExecution].val IN
    {<<t, p, i>> \in (1..Len(tasks)) \X (1..(MaxInvs + 1)) \X (1..(MaxInvs + 1)) :
        /\ tasks[t].TaskArn = PatchTaskArn
        /\ p <= Len(InvPages(t))
        /\ i <= Len(InvPages(t)[p].val)}

InvAt(pos) == InvPages(pos[1])[pos[2]].val[pos[3]]

KeptPositions ==
    {pos \in InvPositions : IsInstallInvocation(InvAt(pos)) /\ InvAt(pos).ExecutionId # NoCommand}

\* An invocation whose payload parses to a value without the structure
\* {"parameters": {"Operation": [...]}}.
IsWrongShape(inv) ==
    /\ inv.Parameters.raw = "text"
    /\ inv.Parameters.text # <<>>
    /\ json_loads(inv.Parameters.text) # [t |-> "JSONDecodeError"]
    /\ ~HasOperationList(inv)

WrongShapePositions == {pos \in InvPositions : IsWrongShape(InvAt(pos))}

\* The per-instance results <<pos, cp, ci>> of the commands of the kept
\* invocations whose status is in S.
ResultPositions(S) ==
    {r \in KeptPositions \X (1..(MaxResults + 1)) \X (1..(MaxResults + 1)) :
        LET pages == stIn.api.commands[InvAt(r[1]).ExecutionId] IN
        /\ r[2] <= Len(pages)
        /\ r[3] <= Len(pages[r[2]].val)
        /\ pages[r[2]].val[r[3]].Status \in S}

\* C8: when the resolver returns a result for a selected execution, success
\* is the number of "Success" results and failure the number of results in
\* {"Failed","TimedOut","Cancelled","ExecutionTimedOut"}, over all pages of
\* the commands of the kept Install invocations; other statuses count nowhere.
\* (Payloads that parse to another shape than an operation list are the
\* subject of C25.)
C8_TallyByStatus ==
    (StatusRan /\ ExecutionSelected /\ stOut.ret.kind = "pair" /\ WrongShapePositions = {}) =>
        /\ stOut.ret.success = Cardinality(ResultPositions({"Success"}))
        /\ stOut.ret.failure = Cardinality(ResultPositions(FailureStatuses))

\* i1 = Success, i2 = Failed (command c1), i3 = InProgress (command c2),
\* two Install invocations: the result is (1, 1).
C8_Witness ==
    /\ StatusRan
    /\ stIn.api.invocations[<<"e1", "t1">>] =
          OkPages(<<<<Inv(InstallText, "c1"), Inv(InstallText, "c2")>>>>)
    /\ stIn.api.commands["c1"] = OkPages(<<<<Result(1, "Success"), Result(2, "Failed")>>>>)
    /\ stIn.api.commands["c2"] = OkPages(<<<<Result(3, "InProgress")>>>>)
    /\ stOut.ret = Pair(1, 1)

\* The answers with every invocation that has no "Install" in its operation
\* list taken out of its page.
RECURSIVE DropNonInstall(_)
DropNonInstall(invs) ==
    IF invs = <<>> THEN <<>>
    ELSE IF IsNonInstallInvocation(Head(invs)) THEN DropNonInstall(Tail(invs))
    ELSE <<Head(invs)>> \o DropNonInstall(Tail(invs))

WithoutNonInstall(api) ==
    [api EXCEPT !.invocations =
        [k \in DOMAIN api.invocations |->
            [p \in 1..Len(api.invocations[k]) |->
                IF api.invocations[k][p].ok
                THEN Ok(DropNonInstall(api.invocations[k][p].val))
                ELSE Raised]]]

CommandLookups == {n \in 1..Len(stOut.calls) : stOut.calls[n].api = "list_command_invocations"}

\* C9: an invocation whose operation list has no "Install" changes neither
\* counter and causes no command lookup: the return value and the lookups
\* made are those of the same answers without that invocation, and a
\* completed resolution has made exactly one command lookup per kept Install
\* invocation.
C9_ScanContributesNothing ==
    StatusRan =>
        /\ stOut = get_patch_status_counts(WithoutNonInstall(stIn.api), stIn.window_id)
        /\ (ExecutionSelected /\ stOut.ret.kind = "pair" /\ WrongShapePositions = {}) =>
              Cardinality(CommandLookups) = Cardinality(KeptPositions)

\* A single Scan invocation whose command c1 reports a success and a
\* failure: (0, 0), and no command lookup.
C9_Witness ==
    /\ StatusRan
    /\ stIn.api.invocations[<<"e1", "t1">>] = OkPages(<<<<Inv(ScanText, "c1")>>>>)
    /\ stIn.api.commands["c1"] = WithFailure(ResultPages(<<<<"Success", "Failed">>>>), FALSE)
    /\ stOut.ret = Pair(0, 0)
    /\ CommandLookups = {}

\* C10: for a well-formed window id whose execution listing is empty the
\* resolver returns (0, 0), and the listing is the only lookup it makes.
C10_NoExecutionsZero ==
    (StatusRan /\ WellFormedWid /\ Listing.ok /\ Listing.val = <<>>) =>
        /\ stOut.ret = Pair(0, 0)
        /\ stOut.calls = <<Call("describe_maintenance_window_executions", stIn.window_id)>>

C10_Witness ==
    /\ StatusRan /\ WellFormedWid /\ Listing.ok /\ Listing.val = <<>>
    /\ stIn.api.tasks["e1"].ok /\ stIn.api.tasks["e1"].val # <<>>
    /\ stOut.ret = Pair(0, 0)


(***************************************************************************)
(* get_target_count: the Target Resolver.                                  *)
(*                                                                         *)
(* api is the answers of the three clients for one account:                *)
(*   api.targets[window_id]  answer: sequence of MW targets                *)
(*                           [Targets |-> sequence of [Key, Values]]       *)
(*   api.ec2                 how describe_instances pages its answer       *)
(*   api.groups[group_name]  sequence of page answers, a page a sequence   *)
(*                           of [ResourceType]                             *)
(* Rule keys are token sequences (<<"tag:", "Env">> is "tag:Env"), so that *)
(* startswith and split are computed.                                      *)
(* The loop state ts = [total, tag_filters, group_name, exc, calls].       *)
(***************************************************************************)
TagPrefix == <<"tag:">>
KeyInstanceIds == <<"InstanceIds">>
KeyResourceGroup == <<"resource-groups:Name">>
Ec2InstanceType == "AWS::EC2::Instance"

\* A local that no statement has assigned yet.
Unbound == [bound |-> FALSE]
Bound(v) == [bound |-> TRUE, val |-> v]

\* str.split(sep): the segments between the occurrences of token sep.
RECURSIVE SplitAcc(_, _, _, _)
SplitAcc(s, sep, i, cur) ==
    IF i > Len(s) THEN <<cur>>
    ELSE IF s[i] = sep THEN <<cur>> \o SplitAcc(s, sep, i + 1, <<>>)
    ELSE SplitAcc(s, sep, i + 1, Append(cur, s[i]))

Split(s, sep) == SplitAcc(s, sep, 1, <<>>)

\* The instances of the account and their tags.
Instances == <<"i1", "i2", "i3">>
TagsOf(i) ==
    CASE i = "i1" -> [Env |-> "prod", Role |-> "web"]
      [] i = "i2" -> [Env |-> "prod", Role |-> "web"]
      [] OTHER -> [Env |-> "prod", Role |-> "db"]

\* EC2 filter semantics: an instance matches when, for every filter, it has
\* the tag named by the filter with one of the filter's values.
Matches(i, filters) ==
    \A n \in 1..Len(filters) :
        LET f == filters[n] IN
        /\ StartsWith(f.Name, TagPrefix) /\ Len(f.Name) = 2
        /\ f.Name[2] \in DOMAIN TagsOf(i)
        /\ TagsOf(i)[f.Name[2]] \in Range(f.Values)

RECURSIVE SelectMatching(_, _)
SelectMatching(is, filters) ==
    IF is = <<>> THEN <<>>
    ELSE IF Matches(Head(is), filters) THEN <<Head(is)>> \o SelectMatching(Tail(is), filters)
    ELSE SelectMatching(Tail(is), filters)

\* The page answers of ec2.get_paginator("describe_instances").paginate:
\* a page is a sequence of reservations, a reservation a sequence of
\* instance ids.
describe_instances(api, filters) ==
    LET m == SelectMatching(Instances, filters)
        each == [i \in 1..Len(m) |-> Ok(<<<<m[i]>>>>)]
    IN CASE api.ec2 = "one_page" -> <<Ok(<<m>>)>>
         [] api.ec2 = "page_each" -> each
         [] api.ec2 = "repeated" -> each \o <<Ok(<<m, m>>)>>
         [] api.ec2 = "fails_first" -> <<Raised>>
         [] OTHER -> <<Ok(<<m>>), Raised>>     \* "fails_later"

\* total += len(values)
AddInstanceIdsOverwrite(total, values) == Len(values)

AddInstanceIdsOnce(total, values) == total + 1

AddInstanceIds(total, values) == total + Len(values)

\* The members of one page that count.
CountPage(page) == Cardinality({n \in 1..Len(page) : page[n].ResourceType = Ec2InstanceType})

RECURSIVE GroupPageLoop(_, _, _, _)
GroupPageLoop(ts, pages, k, count) ==
    IF k > Len(pages) THEN [ts EXCEPT !.total = @ + count]
    ELSE IF ~pages[k].ok THEN Raise(ts)
    ELSE GroupPageLoop(ts, pages, k + 1, count + CountPage(pages[k].val))

\* for group_name in values
RECURSIVE GroupLoop(_, _, _, _)
GroupLoop(ts, values, i, api) ==
    IF i > Len(values) \/ ts.exc THEN ts
    ELSE GroupLoop(
            GroupPageLoop(
                [ts EXCEPT !.group_name = Bound(values[i]),
                           !.calls = Append(@, Call("list_group_resources", values[i]))],
                api.groups[values[i]], 1, 0),
            values, i + 1, api)

\* A rule loop in which a key of no known kind fails the window.
RuleStepUnsupportedRaises(ts, rule, api) ==
    LET key == rule.Key
        values == rule.Values
    IN
    IF key = KeyInstanceIds THEN [ts EXCEPT !.total = AddInstanceIds(@, values)]
    ELSE IF StartsWith(key, TagPrefix)
         THEN LET tag_key == Split(key, "tag:")[2] IN
              [ts EXCEPT !.tag_filters =
                    Append(@, [Name |-> TagPrefix \o tag_key, Values |-> values])]
    ELSE IF key = KeyResourceGroup
         THEN IF ~ts.group_name.bound
              THEN Raise(ts)
              ELSE GroupLoop(ts, values, 1, api)
    ELSE Raise(ts)

\* The body of "for rule in mw_target.get('Targets', [])".
RuleStep(ts, rule, api) ==
    LET key == rule.Key
        values == rule.Values
    IN
    IF key = KeyInstanceIds THEN [ts EXCEPT !.total = AddInstanceIds(@, values)]
    ELSE IF StartsWith(key, TagPrefix)
         THEN LET tag_key == Split(key, "tag:")[2] IN
              [ts EXCEPT !.tag_filters =
                    Append(@, [Name |-> TagPrefix \o tag_key, Values |-> values])]
    ELSE IF key = KeyResourceGroup
         \* The debug line before the group loop formats group_name, a local
         \* that only the loop below it assigns: UnboundLocalError.
         THEN IF ~ts.group_name.bound
              THEN Raise(ts)
              ELSE GroupLoop(ts, values, 1, api)
    ELSE ts                                        \* unsupported: warning only

RECURSIVE RuleLoop(_, _, _, _)
RuleLoop(ts, rules, i, api) ==
    IF i > Len(rules) \/ ts.exc THEN ts
    ELSE RuleLoop(RuleStep(ts, rules[i], api), rules, i + 1, api)

\* instance_ids after "for page in paginator.paginate(Filters=tag_filters)":
\* [exc |-> bool, ids |-> set].
RECURSIVE TagPageLoop(_, _, _)
TagPageLoop(pages, k, instance_ids) ==
    IF k > Len(pages) THEN [exc |-> FALSE, ids |-> instance_ids]
    ELSE IF ~pages[k].ok THEN [exc |-> TRUE, ids |-> instance_ids]
    ELSE TagPageLoop(pages, k + 1,
            instance_ids \cup UNION {Range(pages[k].val[r]) : r \in 1..Len(pages[k].val)})

\* The number of instance entries on the pages from the k-th on, repeats
\* included.
RECURSIVE ListedEntries(_, _)
ListedEntries(pages, k) ==
    IF k > Len(pages) THEN 0
    ELSE LET page == pages[k].val
             lens == [r \in 1..Len(page) |-> Len(page[r])]
             Sum[r \in 0..Len(page)] == IF r = 0 THEN 0 ELSE Sum[r - 1] + lens[r]
         IN Sum[Len(page)] + ListedEntries(pages, k + 1)

\* A lookup whose entries are counted one by one.
ResolveTagsCountingRepeats(ts, api) ==
    IF ts.exc \/ ts.tag_filters = <<>> THEN ts
    ELSE LET pages == describe_instances(api, ts.tag_filters)
             r == TagPageLoop(pages, 1, {})
             called == [ts EXCEPT !.calls = Append(@, Call("describe_instances", ts.tag_filters))]
         IN IF r.exc THEN Raise(called)
            ELSE [called EXCEPT !.total = @ + ListedEntries(pages, 1)]

\* A lookup whose result replaces the running total.
ResolveTagsOverwrite(ts, api) ==
    IF ts.exc \/ ts.tag_filters = <<>> THEN ts
    ELSE LET r == TagPageLoop(describe_instances(api, ts.tag_filters), 1, {})
             called == [ts EXCEPT !.calls = Append(@, Call("describe_instances", ts.tag_filters))]
         IN IF r.exc THEN Raise(called)
            ELSE [called EXCEPT !.total = Cardinality(r.ids)]

\* A lookup made with the first tag filter alone.
ResolveTagsFirstFilter(ts, api) ==
    IF ts.exc \/ ts.tag_filters = <<>> THEN ts
    ELSE LET first == <<ts.tag_filters[1]>>
             r == TagPageLoop(describe_instances(api, first), 1, {})
             called == [ts EXCEPT !.calls = Append(@, Call("describe_instances", first))]
         IN IF r.exc THEN Raise(called)
            ELSE [called EXCEPT !.total = @ + Cardinality(r.ids)]

\* "if tag_filters:" after the rules of one MW target.
ResolveTags(ts, api) ==
    IF ts.exc \/ ts.tag_filters = <<>> THEN ts
    ELSE LET r == TagPageLoop(describe_instances(api, ts.tag_filters), 1, {})
             called == [ts EXCEPT !.calls = Append(@, Call("describe_instances", ts.tag_filters))]
         IN IF r.exc THEN Raise(called)
            ELSE [called EXCEPT !.total = @ + Cardinality(r.ids)]

\* for mw_target in targets_response["Targets"]
RECURSIVE MwTargetLoop(_, _, _, _)
MwTargetLoop(ts, mw_targets, i, api) ==
    IF i > Len(mw_targets) \/ ts.exc THEN ts
    ELSE MwTargetLoop(
            ResolveTags(RuleLoop([ts EXCEPT !.tag_filters = <<>>], mw_targets[i].Targets, 1, api),
                        api),
            mw_targets, i + 1, api)

\* What the function returns: the total, or 0 from the except clause.
ReturnPartialTotal(ts) == ts.total

ReturnCount(ts) == IF ts.exc THEN 0 ELSE ts.total

get_target_count(api, window_id) ==
    LET calls0 == <<Call("describe_maintenance_window_targets", window_id)>>
        ts0 == [total |-> 0, tag_filters |-> <<>>, group_name |-> Unbound,
                exc |-> FALSE, calls |-> calls0]
        ts == IF ~api.targets[window_id].ok THEN Raise(ts0)
              ELSE MwTargetLoop(ts0, api.targets[window_id].val, 1, api)
    IN [ret |-> ReturnCount(ts), logged_error |-> ts.exc, calls |-> ts.calls]


(***************************************************************************)
(* SpecTarget: one call of get_target_count on bounded answers.            *)
(***************************************************************************)
Rule(key, values) == [Key |-> key, Values |-> values]

TargetRules ==
    {Rule(KeyInstanceIds, <<"i1", "i2">>),
     Rule(<<"tag:", "Env">>, <<"prod">>),
     Rule(<<"tag:", "Role">>, <<"web">>),
     Rule(KeyResourceGroup, <<"g1">>),
     Rule(<<"WindowTargetIds">>, <<"x">>)}

Member(type) == [ResourceType |-> type]

\* Group g1 has two instances and a bucket over two pages, g2 a database.
GroupPages(fails) ==
    [g \in {"g1", "g2"} |->
        IF g = "g1"
        THEN <<Ok(<<Member(Ec2InstanceType), Member("AWS::S3::Bucket")>>)>>
             \o (IF fails THEN <<Raised>> ELSE <<Ok(<<Member(Ec2InstanceType)>>)>>)
        ELSE <<Ok(<<Member("AWS::RDS::DBInstance")>>)>>]

\* The ways the collaborators answer: how EC2 pages, whether a group fetch fails.
EnvCases ==
    {[ec2 |-> "one_page", groups_fail |-> FALSE],
     [ec2 |-> "repeated", groups_fail |-> FALSE],
     [ec2 |-> "fails_later", groups_fail |-> FALSE],
     [ec2 |-> "page_each", groups_fail |-> TRUE]}

\* The nondecreasing cut points that split len rules into n MW targets.
Cuts(n, len) ==
    {c \in [0..n -> 0..len] :
        /\ c[0] = 0 /\ c[n] = len
        /\ \A k \in 1..n : c[k - 1] <= c[k]}

\* Every list of at most max_targets MW targets holding at most max_rules
\* rules in all.
TargetLists(max_targets, max_rules) ==
    UNION {UNION {{[k \in 1..n |-> [Targets |-> SubSeq(rules, c[k - 1] + 1, c[k])]] :
                      c \in Cuts(n, Len(rules))} :
                  n \in (IF rules = <<>> THEN 0 ELSE 1)..max_targets} :
           rules \in SeqsUpTo(TargetRules, max_rules)}

TargetApi(listing, env) ==
    [targets |-> [w \in {Wid1, Wid2} |-> listing],
     ec2 |-> env.ec2,
     groups |-> GroupPages(env.groups_fail)]

TargetInputs(max_targets, max_rules) ==
    {[window_id |-> Wid1, api |-> TargetApi(Ok(tl), env)] :
        tl \in TargetLists(max_targets, max_rules), env \in EnvCases}
    \cup {[window_id |-> Wid1, api |-> TargetApi(Raised, env)] : env \in EnvCases}

TargetNotRun == [ret |-> -1, logged_error |-> FALSE, calls |-> <<>>]

InitTarget ==
    /\ tgIn \in TargetInputs(MaxTargets, MaxRules)
    /\ tgOut = TargetNotRun
    /\ stIn = Idle /\ stOut = Idle /\ post = Idle /\ pre = Idle

CallTarget ==
    /\ tgOut = TargetNotRun
    /\ tgOut' = get_target_count(tgIn.api, tgIn.window_id)
    /\ UNCHANGED <<tgIn, stIn, stOut, post, pre>>

NextTarget == CallTarget

SpecTarget == InitTarget /\ [][NextTarget]_vars


(***************************************************************************)
(* Properties of get_target_count (checked under SpecTarget).  The         *)
(* expectations are stated over the rules and the inventory, not by the    *)
(* resolver's loops.                                                       *)
(***************************************************************************)
RECURSIVE SumF(_)
SumF(f) ==
    IF DOMAIN f = {} THEN 0
    ELSE LET x == CHOOSE x \in DOMAIN f : TRUE IN
         f[x] + SumF([y \in DOMAIN f \ {x} |-> f[y]])

IsTagRule(rule) == Len(rule.Key) >= 1 /\ rule.Key[1] = "tag:"
IsGroupRule(rule) == rule.Key = KeyResourceGroup
IsIdsRule(rule) == rule.Key = KeyInstanceIds

RulesOf(mw_target) == mw_target.Targets
HasRule(mw_target, P(_)) == \E r \in 1..Len(RulesOf(mw_target)) : P(RulesOf(mw_target)[r])

\* The instances that carry, for every tag rule of the MW target, one of the
\* rule's values.
TagMatchSet(mw_target) ==
    {i \in Range(Instances) :
        \A r \in 1..Len(RulesOf(mw_target)) :
            LET rule == RulesOf(mw_target)[r] IN
            IsTagRule(rule) => TagsOf(i)[rule.Key[2]] \in Range(rule.Values)}

ExpectedIds(mw_target) ==
    SumF([r \in {r \in 1..Len(RulesOf(mw_target)) : IsIdsRule(RulesOf(mw_target)[r])} |->
            Len(RulesOf(mw_target)[r].Values)])

ExpectedTags(mw_target) ==
    IF HasRule(mw_target, IsTagRule) THEN Cardinality(TagMatchSet(mw_target)) ELSE 0

\* The compute-instance members of a group over all its pages.
InstanceMembers(api, g) ==
    SumF([k \in 1..Len(api.groups[g]) |->
            Cardinality({n \in 1..Len(api.groups[g][k].val) :
                            api.groups[g][k].val[n].ResourceType = "AWS::EC2::Instance"})])

ExpectedGroups(api, mw_target) ==
    SumF([r \in {r \in 1..Len(RulesOf(mw_target)) : IsGroupRule(RulesOf(mw_target)[r])} |->
            SumF([v \in 1..Len(RulesOf(mw_target)[r].Values) |->
                    InstanceMembers(api, RulesOf(mw_target)[r].Values[v])])])

\* The listing, and what can fail, of the answers `in` = [window_id, api].
ListingOf(in) == in.api.targets[in.window_id]
AnyTarget(in, P(_)) ==
    ListingOf(in).ok /\ \E t \in 1..Len(ListingOf(in).val) : HasRule(ListingOf(in).val[t], P)
Ec2Fails(in) == in.api.ec2 \in {"fails_first", "fails_later"}
GroupsFail(in) == \E g \in DOMAIN in.api.groups : \E k \in 1..Len(in.api.groups[g]) : ~in.api.groups[g][k].ok

\* The sum of the per-rule counts of the instance-id and tag rules.
SumOfCounts(in) ==
    SumF([t \in 1..Len(ListingOf(in).val) |->
            ExpectedIds(ListingOf(in).val[t]) + ExpectedTags(ListingOf(in).val[t])])

\* The same with the instance members of every referenced group.
SumOfCountsWithGroups(in) ==
    SumOfCounts(in)
    + SumF([t \in 1..Len(ListingOf(in).val) |-> ExpectedGroups(in.api, ListingOf(in).val[t])])

\* The instance ids that the instance-id and tag rules of the window resolve.
UnionOfIds(in) ==
    UNION {UNION {Range(RulesOf(ListingOf(in).val[t])[r].Values) :
                     r \in {r \in 1..Len(RulesOf(ListingOf(in).val[t])) :
                               IsIdsRule(RulesOf(ListingOf(in).val[t])[r])}}
           \cup (IF HasRule(ListingOf(in).val[t], IsTagRule)
                 THEN TagMatchSet(ListingOf(in).val[t]) ELSE {}) :
           t \in 1..Len(ListingOf(in).val)}

\* A step of the resolution raises: the listing, the tag lookup of an MW
\* target that has tag rules, or the handling of a resource-group rule.
ResolutionRaises(in) ==
    \/ ~ListingOf(in).ok
    \/ AnyTarget(in, IsGroupRule)
    \/ (Ec2Fails(in) /\ AnyTarget(in, IsTagRule))

TargetRan == tgOut # TargetNotRun

\* C2: for a window with a resource-group rule whose lookups all succeed, the
\* count includes, for each referenced group, the number of members of type
\* AWS::EC2::Instance over all pages of the group, and no other member.
C2_GroupInstancesCounted ==
    (/\ TargetRan /\ ListingOf(tgIn).ok /\ AnyTarget(tgIn, IsGroupRule)
     /\ ~GroupsFail(tgIn) /\ ~(Ec2Fails(tgIn) /\ AnyTarget(tgIn, IsTagRule)))
        => tgOut.ret = SumOfCountsWithGroups(tgIn)

\* C3 as claimed: the count is the cardinality of the union of the instance
\* ids resolved by all rules of the window (an id resolved by two rules is
\* counted once).
C3_UnionCardinality ==
    (TargetRan /\ ~ResolutionRaises(tgIn)) => tgOut.ret = Cardinality(UnionOfIds(tgIn))

\* C3 as amended: the count is the sum over the MW targets of the number of
\* listed values of every instance-id rule plus the number of distinct ids
\* of the MW target's tag lookup, and it is 0 when a step of the resolution
\* raises.
C3_SumOfPerRuleCounts ==
    TargetRan => tgOut.ret = (IF ResolutionRaises(tgIn) THEN 0 ELSE SumOfCounts(tgIn))

\* An id resolved by two rules is counted twice.
C3_Witness ==
    /\ TargetRan /\ ~ResolutionRaises(tgIn)
    /\ tgOut.ret = 4 /\ UnionOfIds(tgIn) = {"i1", "i2"}


(***************************************************************************)
(* post_patch_function: the post-patch phase and its Session Cache.        *)
(*                                                                         *)
(* post = [pc, store, rows, idx, cached, session, s3, post_rows,           *)
(*         assume_log, use_log, resolved, written, email, exit_status]     *)
(*   store       the pre-patch rows in the report store (as DictReader     *)
(*               returns them: every value a string)                       *)
(*   rows        pre_patch_rows, once read                                 *)
(*   idx         the number of rows whose loop body has been entered       *)
(*   cached      cached_session / cached_account_id / _role_name / _region *)
(*   session     the local `session`; s3: the session of the local `s3`    *)
(*   assume_log  every assume_role call: its arguments, where it was made, *)
(*               and whether STS accepted it                               *)
(*   use_log     per row resolved, the session of the ssm client used      *)
(*   resolved    per row resolved, what get_patch_status_counts returned   *)
(*   written     the put_object made: the client's session and the rows    *)
(*   store_read  read_csv_from_s3 has returned the rows of the store       *)
(***************************************************************************)
SharedAccount == [account_id |-> "999", role_name |-> "SharedRole", region |-> "us-east-1"]

NoSession == [none |-> TRUE]
Session(account_id, role_name, region, n) ==
    [none |-> FALSE, account_id |-> account_id, role_name |-> role_name,
     region |-> region, n |-> n]

NoCache == [session |-> NoSession]
NothingWritten == [done |-> FALSE]

\* The STS call of assume_role: the log entry of the call.
AssumeEntry(account_id, role_name, region, at, row, ok) ==
    [account_id |-> account_id, role_name |-> role_name, region |-> region,
     at |-> at, row |-> row, ok |-> ok]

\* The except clause of the phase: log and sys.exit(1).
OnExceptionExitZero(p) == [p EXCEPT !.pc = "exited", !.exit_status = 0]

OnException(p) == [p EXCEPT !.pc = "exited", !.exit_status = 1]

\* "Assume role only if account / role / region changed".
CacheMissAlways(cached, account_id, role_name, region) == TRUE

CacheMissAccountOnly(cached, account_id, role_name, region) ==
    \/ cached.session = NoSession
    \/ account_id # cached.account_id

CacheMiss(cached, account_id, role_name, region) ==
    \/ cached.session = NoSession
    \/ account_id # cached.account_id
    \/ role_name # cached.role_name
    \/ region # cached.region

\* The SSM answers for the windows of the rows: window 1 has one Install
\* invocation with a success, a failure and an instance in progress; the
\* result fetch of window 2 fails after its first page.
PostApi(window_id) ==
    TallyApi(OkPages(<<<<Inv(InstallText, "c1")>>>>),
             WithFailure(ResultPages(<<<<"Success", "Failed", "InProgress">>>>),
                         window_id = Wid2))

\* What the resolver returns for each window of the rows.
PostResolution ==
    [w \in {Wid1, Wid2} |-> get_patch_status_counts(PostApi(w), w)]

RowKeysRead == {"AccountId", "RoleName", "Region", "MaintenanceWindowId", "MaintenanceWindowName"}

\* An append that resets the target count.
AppendPostRowResetCount(p, row, r) ==
    IF r.ret = None THEN OnException(p)
    ELSE IF "TargetInstanceCount" \notin DOMAIN row THEN OnException(p)
    ELSE [p EXCEPT !.post_rows = Append(@,
            [AccountId |-> row.AccountId,
             Region |-> row.Region,
             RoleName |-> row.RoleName,
             MaintenanceWindowId |-> row.MaintenanceWindowId,
             MaintenanceWindowName |-> row.MaintenanceWindowName,
             TargetInstanceCount |-> "0",
             Success |-> r.ret.success,
             Failure |-> r.ret.failure])]

\* success, failure = get_patch_status_counts(...), then the append.
AppendPostRow(p, row, r) ==
    IF r.ret = None THEN OnException(p)                 \* TypeError: cannot unpack
    ELSE IF "TargetInstanceCount" \notin DOMAIN row THEN OnException(p)   \* KeyError
    ELSE [p EXCEPT !.post_rows = Append(@,
            [AccountId |-> row.AccountId,
             Region |-> row.Region,
             RoleName |-> row.RoleName,
             MaintenanceWindowId |-> row.MaintenanceWindowId,
             MaintenanceWindowName |-> row.MaintenanceWindowName,
             TargetInstanceCount |-> row.TargetInstanceCount,
             Success |-> r.ret.success,
             Failure |-> r.ret.failure])]

\* The loop body once the row's session is settled.
ResolveRow(p, row) ==
    LET r == PostResolution[row.MaintenanceWindowId]
    IN AppendPostRow(
          [p EXCEPT !.session = p.cached.session,
                    !.s3 = p.cached.session,
                    !.use_log = Append(@, p.cached.session),
                    !.resolved = Append(@, r.ret)],
          row, r)

\* "if not pre_patch_rows": sys.exit(0).  SystemExit is no Exception, so the
\* except clause of the phase lets it through.
EmptyStoreExitCaught(p) == [p EXCEPT !.pc = "exited", !.exit_status = 1]

EmptyStoreExit(p) == [p EXCEPT !.pc = "exited", !.exit_status = 0]

\* load_shared_account, assume_role for the shared account, read the store.
PostStart ==
    /\ post.pc = "start"
    /\ \E sts_ok \in BOOLEAN, read_ok \in BOOLEAN :
        LET p1 == [post EXCEPT !.assume_log = Append(@,
                      AssumeEntry(SharedAccount.account_id, SharedAccount.role_name,
                                  SharedAccount.region, "read", 0, sts_ok))]
            s == Session(SharedAccount.account_id, SharedAccount.role_name,
                         SharedAccount.region, Len(p1.assume_log))
            p2 == [p1 EXCEPT !.session = s, !.s3 = s]
        IN
        /\ (~sts_ok => read_ok)
        /\ post' = IF ~sts_ok THEN OnException(p1)
                   ELSE IF ~read_ok THEN OnException(p2)
                   ELSE IF post.store = <<>>
                        THEN EmptyStoreExit([p2 EXCEPT !.store_read = TRUE])
                   ELSE [p2 EXCEPT !.pc = "loop", !.rows = post.store, !.store_read = TRUE]
    /\ UNCHANGED <<stIn, stOut, tgIn, tgOut, pre>>

\* One iteration of "for row in pre_patch_rows".
PostRow ==
    /\ post.pc = "loop"
    /\ post.idx < Len(post.rows)
    /\ LET k == post.idx + 1
           row == post.rows[k]
           p0 == [post EXCEPT !.idx = k]
       IN
       IF ~(RowKeysRead \subseteq DOMAIN row) THEN post' = OnException(p0)   \* KeyError
       ELSE IF ~CacheMiss(post.cached, row.AccountId, row.RoleName, row.Region)
            THEN post' = ResolveRow(p0, row)
       ELSE \E sts_ok \in BOOLEAN :
            LET p1 == [p0 EXCEPT !.assume_log = Append(@,
                          AssumeEntry(row.AccountId, row.RoleName, row.Region, "row", k, sts_ok))]
                p2 == [p1 EXCEPT !.cached =
                          [session |-> Session(row.AccountId, row.RoleName, row.Region,
                                               Len(p1.assume_log)),
                           account_id |-> row.AccountId,
                           role_name |-> row.RoleName,
                           region |-> row.Region]]
            IN post' = IF ~sts_ok THEN OnException(p1) ELSE ResolveRow(p2, row)
    /\ UNCHANGED <<stIn, stOut, tgIn, tgOut, pre>>

\* The keys of the report store that the phase reads and writes.
PrePatchKey == "pre_patch_notification/mw-running-today-output.csv"
PostPatchKey == "post_patch_notification/mw-post-patch-output.csv"

\* s3.put_object(Bucket, Key, Body): the object under the key is replaced.
PutObject(p, s3, key, rows) ==
    [p EXCEPT !.written = [done |-> TRUE, by |-> s3, key |-> key, rows |-> rows],
              !.store = IF key = PrePatchKey THEN rows ELSE @]

\* After the loop: load_shared_account, assume_role, write_csv_to_s3(s3, ...).
PostWrite ==
    /\ post.pc = "loop"
    /\ post.idx = Len(post.rows)
    /\ \E sts_ok \in BOOLEAN, put_ok \in BOOLEAN :
        LET p1 == [post EXCEPT !.assume_log = Append(@,
                      AssumeEntry(SharedAccount.account_id, SharedAccount.role_name,
                                  SharedAccount.region, "write", 0, sts_ok))]
            p2 == [p1 EXCEPT !.session = Session(SharedAccount.account_id,
                                 SharedAccount.role_name, SharedAccount.region,
                                 Len(p1.assume_log))]
        IN
        /\ (~sts_ok => put_ok)
        /\ post' = IF ~sts_ok THEN OnException(p1)
                   ELSE IF ~put_ok THEN OnException(p2)
                   ELSE PutObject([p2 EXCEPT !.pc = "email"], p2.s3, PostPatchKey,
                                  p2.post_rows)
    /\ UNCHANGED <<stIn, stOut, tgIn, tgOut, pre>>

\* build_html_table and send_email_ses with the shared session, then return.
PostEmail ==
    /\ post.pc = "email"
    /\ \E ses_ok \in BOOLEAN :
        post' = IF ~ses_ok THEN OnException(post)
                ELSE [post EXCEPT !.pc = "exited", !.email = TRUE, !.exit_status = 0]
    /\ UNCHANGED <<stIn, stOut, tgIn, tgOut, pre>>

(***************************************************************************)
(* SpecPost: the phase over every bounded content of the report store.     *)
(***************************************************************************)
CtxA == [account_id |-> "111", role_name |-> "RoleA", region |-> "us-east-1"]
CtxB == [account_id |-> "222", role_name |-> "RoleA", region |-> "us-east-1"]
CtxC == [account_id |-> "111", role_name |-> "RoleA", region |-> "eu-west-1"]
CtxD == [account_id |-> "111", role_name |-> "RoleB", region |-> "us-east-1"]
Contexts == {CtxA, CtxB, CtxC, CtxD}

StoredRow(ctx, window_id) ==
    [AccountId |-> ctx.account_id, Region |-> ctx.region, RoleName |-> ctx.role_name,
     MaintenanceWindowId |-> window_id,
     MaintenanceWindowName |-> IF window_id = Wid1 THEN "mmpatching-1" ELSE "mmpatching-2",
     TargetInstanceCount |-> "3"]

StoredRows == {StoredRow(ctx, w) : ctx \in Contexts, w \in {Wid1, Wid2}}

\* The phase before its first statement, the store holding the given rows.
PostBegin(store) ==
    [pc |-> "start", store |-> store, rows |-> <<>>, idx |-> 0,
     cached |-> NoCache, session |-> NoSession, s3 |-> NoSession,
     post_rows |-> <<>>, assume_log |-> <<>>, use_log |-> <<>>,
     resolved |-> <<>>, written |-> NothingWritten, email |-> FALSE,
     exit_status |-> -1, store_read |-> FALSE]

InitPost ==
    /\ \E store \in SeqsUpTo(StoredRows, MaxRows) : post = PostBegin(store)
    /\ stIn = Idle /\ stOut = Idle /\ tgIn = Idle /\ tgOut = Idle /\ pre = Idle

NextPost == PostStart \/ PostRow \/ PostWrite \/ PostEmail

SpecPost == InitPost /\ [][NextPost]_vars


(***************************************************************************)
(* Properties of the post-patch phase (checked under SpecPost).            *)
(***************************************************************************)
TripleOf(row) == <<row.AccountId, row.RoleName, row.Region>>
TripleOfCall(a) == <<a.account_id, a.role_name, a.region>>

\* The assume_role calls made inside the row loop, in order.
LoopAssumes == SelectSeq(post.assume_log, LAMBDA a : a.at = "row")

\* C1: a lookup that fails during the status resolution of one row stays
\* local to that row: the row is still emitted (with a zero or absent
\* result) and the phase goes on with the later rows.
C1_LookupFailureStaysLocal ==
    \A k \in 1..Len(post.resolved) :
        post.resolved[k] = None =>
            /\ Len(post.post_rows) >= k
            /\ ~(post.pc = "exited" /\ post.exit_status = 1 /\ post.idx = k)

\* The rows at which the cache must miss: the first, and every row whose
\* triple differs from the preceding row's.
SwitchRows(n) ==
    {k \in 1..n : k = 1 \/ TripleOf(post.rows[k]) # TripleOf(post.rows[k - 1])}

\* C5: in the row loop assume_role has been invoked exactly once for each
\* entered row that is the first or whose (accountId, roleName, region)
\* differs from the preceding row's, with that row's triple, and for no
\* other row.
C5_AssumeOnlyOnSwitch ==
    /\ Len(LoopAssumes) = Cardinality(SwitchRows(post.idx))
    /\ {a.row : a \in Range(LoopAssumes)} = SwitchRows(post.idx)
    /\ \A a \in Range(LoopAssumes) : TripleOfCall(a) = TripleOf(post.rows[a.row])

\* The contexts [A, A, B, A]: three invocations in the loop.
C5_Witness ==
    /\ post.pc = "email"
    /\ Len(post.rows) = 4
    /\ [k \in 1..4 |-> TripleOf(post.rows[k])] =
          <<TripleOfCall(CtxA), TripleOfCall(CtxA), TripleOfCall(CtxB), TripleOfCall(CtxA)>>
    /\ Len(LoopAssumes) = 3

\* C6: the session whose ssm client resolves a row was obtained, by an
\* accepted assume_role call of the loop, for exactly that row's
\* (accountId, roleName, region).
C6_SessionMatchesRow ==
    \A k \in 1..Len(post.use_log) :
        LET s == post.use_log[k] IN
        /\ s # NoSession
        /\ <<s.account_id, s.role_name, s.region>> = TripleOf(post.rows[k])
        /\ post.assume_log[s.n].ok /\ post.assume_log[s.n].at = "row"
        /\ TripleOfCall(post.assume_log[s.n]) = TripleOf(post.rows[k])

\* A session reused for the second row and replaced, for a row that differs
\* in the region only, at the third.
C6_Witness ==
    /\ Len(post.use_log) >= 3
    /\ post.use_log[1] = post.use_log[2]
    /\ post.use_log[3] # post.use_log[2]
    /\ post.rows[3].AccountId = post.rows[2].AccountId
    /\ post.rows[3].RoleName = post.rows[2].RoleName
    /\ post.rows[3].Region # post.rows[2].Region

\* C7: once STS has rejected the role assumption of a row, that call is the
\* last assume_role call, the row and all later rows are left unprocessed,
\* nothing is written or mailed, and the process has ended with status 1
\* (the "nothing to report" outcome is status 0).
C7_RejectedAssumeTerminates ==
    \A n \in 1..Len(post.assume_log) :
        LET a == post.assume_log[n] IN
        (a.at = "row" /\ ~a.ok) =>
            /\ n = Len(post.assume_log)
            /\ post.pc = "exited" /\ post.exit_status = 1
            /\ post.idx = a.row
            /\ Len(post.use_log) = a.row - 1
            /\ Len(post.post_rows) = a.row - 1
            /\ post.written = NothingWritten
            /\ ~post.email

\* The role assumption of the third row is rejected after two rows were
\* resolved.
C7_Witness ==
    /\ Len(post.rows) = 4
    /\ Len(post.assume_log) >= 3
    /\ \E n \in 1..Len(post.assume_log) :
          post.assume_log[n].at = "row" /\ post.assume_log[n].row = 3 /\ ~post.assume_log[n].ok
    /\ Len(post.post_rows) = 2
    /\ post.exit_status = 1


(***************************************************************************)
(* main of pre_patch_notification.py: the pre-patch phase.                 *)
(*                                                                         *)
(* pre = [script, pc, pre_patch_rows, ai, session, s3, n_windows, wi,      *)
(*        last_mw, output_rows, assume_log, visited, written, email,       *)
(*        result, exit_status]                                             *)
(*   script          the script whose pre-patch phase runs: main of        *)
(*                   pre_patch_notification.py, or pre_patch_notification  *)
(*                   of combined_pre_post_patching.py                      *)
(*   pre_patch_rows  the rows of accounts.csv; ai: rows entered so far     *)
(*   session, s3     the locals `session` and `s3`                         *)
(*   n_windows, wi   the length of response["WindowIdentities"] and the    *)
(*                   number of its windows entered so far                  *)
(*   visited         per call of get_target_count: the account row, the    *)
(*                   window id, whether a step of the resolution failed,   *)
(*                   and whether the call logged an error                  *)
(*   listed          the number of windows listed so far, over all rows    *)
(*   last_mw         the window entered by the last loop iteration         *)
(*   result          the value main returns, or the exception that ends it *)
(*   exit_status     the exit status of the process once it has ended, -1  *)
(*                   before                                                *)
(***************************************************************************)
NowUtc == 36                      \* datetime.now(timezone.utc), in hours
NamePrefix == <<"mmpatching">>
NoTime == [absent |-> TRUE]
IsoTime(hours, suffix) == [absent |-> FALSE, hours |-> hours, suffix |-> suffix]

\* datetime.fromisoformat(s.replace("Z", "+00:00")), made timezone-aware:
\* the instant in hours UTC, or a ValueError.
ParseIso(t) ==
    CASE t.suffix = "Z" -> Ok(t.hours)
      [] t.suffix = "" -> Ok(t.hours)               \* naive: taken as UTC
      [] t.suffix = "+02:00" -> Ok(t.hours - 2)
      [] OTHER -> Raised                            \* not an ISO-8601 text

runs_today_through_midnight(next_execution_time) ==
    LET parsed == ParseIso(next_execution_time)
        start_of_today == (NowUtc \div 24) * 24
        end_of_today == start_of_today + 24
    IN IF ~parsed.ok THEN FALSE
       ELSE start_of_today <= parsed.val /\ parsed.val <= end_of_today

runs_today(next_execution_time) ==
    LET parsed == ParseIso(next_execution_time)
        start_of_today == (NowUtc \div 24) * 24
        end_of_today == start_of_today + 24
    IN IF ~parsed.ok THEN FALSE
       ELSE start_of_today <= parsed.val /\ parsed.val < end_of_today

Standalone == "pre_patch_notification.py"
Combined == "combined_pre_post_patching.py"

\* An exception leaves main: the process ends with a traceback.
PreUncaught(p, what) ==
    [p EXCEPT !.pc = "crashed", !.result = [raised |-> what], !.exit_status = 1]

\* An exception inside the phase: the combined script's except clause logs
\* it and calls sys.exit(1); the standalone script has no handler.
PreFailure(p, what) ==
    IF p.script = Combined
    THEN [p EXCEPT !.pc = "exited", !.result = [raised |-> what], !.exit_status = 1]
    ELSE PreUncaught(p, what)

\* "if not output_rows": the standalone script returns its summary and the
\* process ends; the combined script calls sys.exit(0), and SystemExit is no
\* Exception, so its except clause lets it through.
EmptyReportExitCaught(p) == PreFailure(p, "SystemExit")

EmptyReportExitReturns(p) ==
    [p EXCEPT !.pc = "done", !.result = [status |-> "success", records_written |-> 0]]

EmptyReportExit(p) ==
    IF p.script = Combined
    THEN [p EXCEPT !.pc = "exited", !.result = [exited |-> 0], !.exit_status = 0]
    ELSE [p EXCEPT !.pc = "done", !.exit_status = 0,
                   !.result = [status |-> "success", records_written |-> 0]]

\* The dict appended to output_rows.
OutputRow(script, row, mw, target_count) ==
    IF script = Combined
    THEN [AccountId |-> row.account_id,
          Region |-> row.region,
          RoleName |-> row.role_name,
          MaintenanceWindowId |-> mw.WindowId,
          MaintenanceWindowName |-> mw.Name,
          TargetInstanceCount |-> target_count]
    ELSE [AccountId |-> row.account_id,
          Region |-> row.region,
          MaintenanceWindowId |-> mw.WindowId,
          MaintenanceWindowName |-> mw.Name,
          TargetInstanceCount |-> target_count]

\* What the clients of an account's session answer for the two windows.
PreApi(listing1, listing2, env) ==
    [targets |-> [w \in {Wid1, Wid2} |-> IF w = Wid1 THEN listing1 ELSE listing2],
     ec2 |-> env.ec2,
     groups |-> GroupPages(env.groups_fail)]

IdsRule == Rule(KeyInstanceIds, <<"i1", "i2">>)
ListIds == Ok(<<[Targets |-> <<IdsRule>>]>>)
ListIdsThenTag == Ok(<<[Targets |-> <<IdsRule, Rule(<<"tag:", "Env">>, <<"prod">>)>>]>>)
ListIdsThenGroup == Ok(<<[Targets |-> <<IdsRule, Rule(KeyResourceGroup, <<"g1">>)>>]>>)
ListTwoTargets ==
    Ok(<<[Targets |-> <<IdsRule>>], [Targets |-> <<Rule(<<"tag:", "Role">>, <<"web">>)>>]>>)

\* Window 1 resolves to two instances, or fails at the tag lookup or at the
\* group rule after its instance ids were added; window 2 fails at the
\* listing, or at the tag lookup of its second MW target.
PreApis ==
    {PreApi(ListIds, Raised, [ec2 |-> "one_page", groups_fail |-> FALSE]),
     PreApi(ListIdsThenTag, ListTwoTargets, [ec2 |-> "fails_later", groups_fail |-> FALSE]),
     PreApi(ListIdsThenGroup, ListTwoTargets, [ec2 |-> "fails_first", groups_fail |-> TRUE])}

\* What get_target_count returns for each window under each of the answers.
PreResolution ==
    [a \in PreApis |-> [w \in {Wid1, Wid2} |-> get_target_count(a, w)]]

Window(id, name, next) == [WindowId |-> id, Name |-> name, NextExecutionTime |-> next]

ListedWindows ==
    {Window(Wid1, <<"mmpatching", "-a">>, IsoTime(24, "Z")),
     Window(Wid2, <<"mmpatching", "-b">>, IsoTime(49, "+02:00")),
     Window(Wid2, <<"other", "-c">>, IsoTime(30, "Z")),
     Window(Wid1, <<"mmpatching", "-e">>, IsoTime(48, "")),
     Window(Wid2, <<"mmpatching", "-f">>, NoTime),
     Window(Wid1, <<"mmpatching", "-g">>, IsoTime(30, "tomorrow")),
     Window(Wid2, <<"mmpatching", "-h">>, IsoTime(23, "Z"))}

NoWindow == [none |-> TRUE]

\* One row of accounts.csv is entered: assume_role, the four clients, and
\* ssm.describe_maintenance_windows().
PreAccount ==
    /\ pre.pc = "accounts"
    /\ pre.ai < Len(pre.pre_patch_rows)
    /\ \E sts_ok \in BOOLEAN, list_ok \in BOOLEAN, n \in 0..MaxWindows :
        LET k == pre.ai + 1
            row == pre.pre_patch_rows[k]
            p1 == [pre EXCEPT !.ai = k,
                              !.assume_log = Append(@,
                                  AssumeEntry(row.account_id, row.role_name, row.region,
                                              "row", k, sts_ok))]
            s == Session(row.account_id, row.role_name, row.region, Len(p1.assume_log))
            p2 == [p1 EXCEPT !.session = s, !.s3 = s]
        IN
        /\ n <= MaxListed - pre.listed
        /\ (~(sts_ok /\ list_ok) => n = 0)
        /\ (~sts_ok => list_ok)
        /\ pre' = IF ~sts_ok THEN PreFailure(p1, "assume_role")
                  ELSE IF ~list_ok THEN PreFailure(p2, "describe_maintenance_windows")
                  ELSE [p2 EXCEPT !.n_windows = n, !.wi = 0, !.listed = @ + n,
                                  !.pc = IF n = 0 THEN "accounts" ELSE "windows"]
    /\ UNCHANGED <<stIn, stOut, tgIn, tgOut, post>>

\* One iteration of "for mw in response['WindowIdentities']": the window
\* that the listing holds at this position, and the answers of the
\* session's clients while its targets are resolved.
PreWindow ==
    /\ pre.pc = "windows"
    /\ pre.wi < pre.n_windows
    /\ \E mw \in ListedWindows, api \in PreApis :
       LET j == pre.wi + 1
           row == pre.pre_patch_rows[pre.ai]
           p0 == [pre EXCEPT !.wi = j, !.last_mw = mw,
                             !.pc = IF j = pre.n_windows THEN "accounts" ELSE "windows"]
           r == PreResolution[api][mw.WindowId]
       IN
       pre' = IF mw.NextExecutionTime.absent THEN p0
              ELSE IF ~StartsWith(mw.Name, NamePrefix) THEN p0
              ELSE IF ~runs_today(mw.NextExecutionTime) THEN p0
              ELSE [p0 EXCEPT
                      !.visited = Append(@, [ai |-> pre.ai,
                                             window_id |-> mw.WindowId,
                                             step_fails |-> ResolutionRaises(
                                                 [window_id |-> mw.WindowId, api |-> api]),
                                             logged_error |-> r.logged_error]),
                      !.output_rows = Append(@, OutputRow(pre.script, row, mw, r.ret))]
    /\ UNCHANGED <<stIn, stOut, tgIn, tgOut, post>>

\* load_email_config / load_shared_account, then assume_role for the
\* shared account.
AssumeShared(p, sts_ok) ==
    LET p1 == [p EXCEPT !.assume_log = Append(@,
                  AssumeEntry(SharedAccount.account_id, SharedAccount.role_name,
                              SharedAccount.region, "email", 0, sts_ok))]
    IN IF ~sts_ok THEN p1
       ELSE [p1 EXCEPT !.session = Session(SharedAccount.account_id,
                            SharedAccount.role_name, SharedAccount.region,
                            Len(p1.assume_log))]

\* write_csv_to_s3(s3=s3, ...) with the local s3.
WriteReport(p, put_ok) ==
    IF ~put_ok THEN PreFailure(p, "write_csv_to_s3")
    ELSE [p EXCEPT !.pc = "email",
                   !.written = [done |-> TRUE, by |-> p.s3, rows |-> p.output_rows]]

\* After the loop: the early exit when there is no row; else the report is
\* written, in the combined script after the shared role was assumed.
PreReport ==
    /\ pre.pc = "accounts"
    /\ pre.ai = Len(pre.pre_patch_rows)
    /\ \E sts_ok \in BOOLEAN, put_ok \in BOOLEAN :
        /\ (pre.output_rows = <<>> => sts_ok /\ put_ok)
        /\ (pre.script = Standalone => sts_ok)
        /\ (~sts_ok => put_ok)
        /\ pre' = IF pre.output_rows = <<>> THEN EmptyReportExit(pre)
                  ELSE IF pre.script = Standalone THEN WriteReport(pre, put_ok)
                  ELSE IF ~sts_ok THEN PreFailure(AssumeShared(pre, FALSE), "assume_role")
                  ELSE WriteReport(AssumeShared(pre, TRUE), put_ok)
    /\ UNCHANGED <<stIn, stOut, tgIn, tgOut, post>>

\* The email: in the standalone script after load_email_config and
\* assume_role for the mail account; then the phase returns its summary,
\* and the standalone process ends.
PreEmail ==
    /\ pre.pc = "email"
    /\ \E sts_ok \in BOOLEAN, ses_ok \in BOOLEAN :
        LET p2 == IF pre.script = Standalone THEN AssumeShared(pre, sts_ok) ELSE pre
        IN
        /\ (pre.script = Combined => sts_ok)
        /\ (~sts_ok => ses_ok)
        /\ pre' = IF ~sts_ok THEN PreFailure(p2, "assume_role")
                  ELSE IF ~ses_ok THEN PreFailure(p2, "send_email_ses")
                  ELSE [p2 EXCEPT !.pc = "done", !.email = TRUE,
                                  !.exit_status = IF pre.script = Standalone THEN 0 ELSE @,
                                  !.result = [status |-> "success",
                                              records_written |-> Len(pre.output_rows)]]
    /\ UNCHANGED <<stIn, stOut, tgIn, tgOut, post>>

(***************************************************************************)
(* SpecPre: the phase over every bounded accounts file.                    *)
(***************************************************************************)
Fleet == <<CtxA, CtxB, CtxC, CtxD>>

\* The phase of the given script before its first statement, on an accounts
\* file of n rows.
PreBegin(script, n) ==
    [script |-> script, pc |-> "accounts", pre_patch_rows |-> SubSeq(Fleet, 1, n), ai |-> 0,
     session |-> NoSession, s3 |-> NoSession,
     n_windows |-> 0, wi |-> 0, listed |-> 0, last_mw |-> NoWindow, output_rows |-> <<>>,
     assume_log |-> <<>>, visited |-> <<>>,
     written |-> NothingWritten, email |-> FALSE,
     result |-> [running |-> TRUE], exit_status |-> -1]

InitPre ==
    /\ \E n \in 0..MaxAccounts : pre = PreBegin(Standalone, n)
    /\ stIn = Idle /\ stOut = Idle /\ tgIn = Idle /\ tgOut = Idle /\ post = Idle

NextPre == PreAccount \/ PreWindow \/ PreReport \/ PreEmail

SpecPre == InitPre /\ [][NextPre]_vars


(***************************************************************************)
(* Properties of the pre-patch phase (checked under SpecPre).              *)
(***************************************************************************)
\* The calls of get_target_count in which a step failed.
FailedCalls == {k \in 1..Len(pre.visited) : pre.visited[k].step_fails}

\* C4: when a target-listing, instance-lookup or resource-group step fails
\* while one window is resolved, get_target_count logs it and returns 0,
\* never a partial sub-total; the phase emits that window's row with count 0
\* and goes on: the failure never ends main, and the report that is written
\* holds the row of every window resolved, the failed ones included.
C4_FailedWindowCountsZero ==
    /\ Len(pre.output_rows) = Len(pre.visited)
    /\ \A k \in 1..Len(pre.visited) :
          /\ pre.output_rows[k].AccountId = pre.pre_patch_rows[pre.visited[k].ai].account_id
          /\ pre.output_rows[k].MaintenanceWindowId = pre.visited[k].window_id
    /\ \A k \in FailedCalls :
          /\ pre.visited[k].logged_error
          /\ pre.output_rows[k].TargetInstanceCount = 0
    /\ (pre.pc = "crashed" /\ FailedCalls # {}) =>
          pre.result.raised \in {"assume_role", "describe_maintenance_windows",
                                 "write_csv_to_s3", "send_email_ses"}
    /\ (pre.pc \in {"email", "done"} /\ pre.output_rows # <<>>) =>
          /\ pre.ai = Len(pre.pre_patch_rows)
          /\ pre.written.done /\ pre.written.rows = pre.output_rows

\* The first window of the first account fails after its instance ids were
\* added; the run goes on with a second window of that account and with a
\* window of the second account, and the report holds the three rows.
C4_Witness ==
    /\ pre.pc = "done" /\ pre.email
    /\ Len(pre.output_rows) = 3
    /\ FailedCalls = {1, 3}
    /\ pre.visited[1].window_id = Wid1
    /\ pre.output_rows[1].TargetInstanceCount = 0
    /\ pre.output_rows[2].TargetInstanceCount = 2
    /\ pre.visited[2].ai = 1 /\ pre.visited[3].ai = 2
    /\ pre.written.rows = pre.output_rows


(***************************************************************************)
(* Further properties of get_target_count (checked under SpecTarget).      *)
(***************************************************************************)
\* The rearrangements of a sequence.
Bijections(n) == {p \in [1..n -> 1..n] : \A i, j \in 1..n : p[i] = p[j] => i = j}
Rearrangements(s) == {[i \in 1..Len(s) |-> s[p[i]]] : p \in Bijections(Len(s))}

\* The listings obtained from a listing by rearranging its MW targets and,
\* inside each MW target, its rules.
RECURSIVE RearrangedRules(_)
RearrangedRules(mw_targets) ==
    IF mw_targets = <<>> THEN {<<>>}
    ELSE {<<[Targets |-> rs]>> \o rest :
            rs \in Rearrangements(Head(mw_targets).Targets),
            rest \in RearrangedRules(Tail(mw_targets))}

RearrangedListings(mw_targets) ==
    UNION {Rearrangements(l) : l \in RearrangedRules(mw_targets)}

\* The same answers with another target listing for the window.
WithListing(in, mw_targets) ==
    [in.api EXCEPT !.targets = [w \in DOMAIN @ |-> Ok(mw_targets)]]

CountFor(in, mw_targets) == get_target_count(WithListing(in, mw_targets), in.window_id).ret

\* C11: with the collaborators' answers held fixed, the count is the same
\* for every rearrangement of the rules inside each MW target and of the MW
\* targets of the window.
C11_OrderIndependent ==
    (TargetRan /\ ListingOf(tgIn).ok) =>
        \A l \in RearrangedListings(ListingOf(tgIn).val) : CountFor(tgIn, l) = tgOut.ret

\* An instance-id rule and a tag rule share the first MW target, a second
\* tag rule follows in another; the count is not zero.
C11_Witness ==
    /\ TargetRan /\ ListingOf(tgIn).ok
    /\ Len(ListingOf(tgIn).val) = 2
    /\ ListingOf(tgIn).val[1].Targets = <<Rule(KeyInstanceIds, <<"i1", "i2">>),
                                           Rule(<<"tag:", "Env">>, <<"prod">>)>>
    /\ ListingOf(tgIn).val[2].Targets = <<Rule(<<"tag:", "Role">>, <<"web">>)>>
    /\ Cardinality(RearrangedListings(ListingOf(tgIn).val)) = 4
    /\ tgOut.ret = 7


\* The filter list that the tag rules of an MW target make, in rule order.
FiltersOf(mw_target) ==
    LET tag_rules == SelectSeq(RulesOf(mw_target), IsTagRule)
    IN [n \in 1..Len(tag_rules) |-> [Name |-> tag_rules[n].Key, Values |-> tag_rules[n].Values]]

\* The instance ids on the pages that the instance lookup answers for a
\* filter list, and the number of entries on those pages.
IdsReturned(api, filters) ==
    LET pages == describe_instances(api, filters)
    IN UNION {UNION {Range(pages[k].val[r]) : r \in 1..Len(pages[k].val)} :
                 k \in {k \in 1..Len(pages) : pages[k].ok}}

EntriesReturned(api, filters) ==
    LET pages == describe_instances(api, filters)
    IN SumF([k \in 1..Len(pages) |->
               SumF([r \in 1..Len(pages[k].val) |-> Len(pages[k].val[r])])])

TagContribution(api, mw_target) ==
    IF HasRule(mw_target, IsTagRule)
    THEN Cardinality(IdsReturned(api, FiltersOf(mw_target)))
    ELSE 0

\* C12: an instance id that the instance lookup of an MW target returns more
\* than once, on one page or on several, is counted once: the MW target's
\* tag contribution is the number of distinct ids on the returned pages.
C12_TagIdsCountedOnce ==
    (TargetRan /\ ~ResolutionRaises(tgIn)) =>
        tgOut.ret = SumF([t \in 1..Len(ListingOf(tgIn).val) |->
                            ExpectedIds(ListingOf(tgIn).val[t])
                            + TagContribution(tgIn.api, ListingOf(tgIn).val[t])])

\* The lookup for Role=web lists i1 and i2 once on pages of their own and
\* twice more on a last page: six entries, two ids, and the count is 2.
C12_Witness ==
    /\ TargetRan /\ ~ResolutionRaises(tgIn)
    /\ tgIn.api.ec2 = "repeated"
    /\ ListingOf(tgIn).val = <<[Targets |-> <<Rule(<<"tag:", "Role">>, <<"web">>)>>]>>
    /\ EntriesReturned(tgIn.api, FiltersOf(ListingOf(tgIn).val[1])) = 6
    /\ tgOut.ret = 2


\* The window is listed and each of its rules is an instance-id rule.
OnlyIdsRules(in) ==
    /\ ListingOf(in).ok
    /\ \A t \in 1..Len(ListingOf(in).val) :
          \A r \in 1..Len(RulesOf(ListingOf(in).val[t])) :
              IsIdsRule(RulesOf(ListingOf(in).val[t])[r])

\* The lookups other than the target listing.
LookupsBeyondListing ==
    {k \in 1..Len(tgOut.calls) : tgOut.calls[k].api # "describe_maintenance_window_targets"}

\* C13: for a window whose targets hold instance-id rules only, the count is
\* the total number of listed values, and neither an instance lookup nor a
\* resource-group lookup is made.
C13_InstanceIdsOnly ==
    (TargetRan /\ OnlyIdsRules(tgIn)) =>
        /\ tgOut.ret = SumF([t \in 1..Len(ListingOf(tgIn).val) |->
                               SumF([r \in 1..Len(RulesOf(ListingOf(tgIn).val[t])) |->
                                       Len(RulesOf(ListingOf(tgIn).val[t])[r].Values)])])
        /\ ~tgOut.logged_error
        /\ LookupsBeyondListing = {}
        /\ tgOut.calls = <<Call("describe_maintenance_window_targets", tgIn.window_id)>>

\* Targets [{InstanceIds: [i1, i2]}] give 2.
C13_Witness ==
    /\ TargetRan
    /\ ListingOf(tgIn) = Ok(<<[Targets |-> <<Rule(KeyInstanceIds, <<"i1", "i2">>)>>]>>)
    /\ tgOut.ret = 2
    /\ Len(tgOut.calls) = 1


HasTagRule(mw_target) == HasRule(mw_target, IsTagRule)
HasGroupRule(mw_target) == HasRule(mw_target, IsGroupRule)

\* The MW targets whose rules are gone through before the resolution ends:
\* all of them, or those up to the first one at which a step raises.
TargetsEntered(in) ==
    LET mw_targets == ListingOf(in).val
        raising == {t \in 1..Len(mw_targets) :
                      \/ HasGroupRule(mw_targets[t])
                      \/ (HasTagRule(mw_targets[t]) /\ Ec2Fails(in))}
    IN IF raising = {} THEN mw_targets
       ELSE SubSeq(mw_targets, 1, CHOOSE t \in raising : \A u \in raising : t <= u)

\* The filter lists of the instance lookups the resolution makes, in order:
\* one per MW target entered that has tag rules and no resource-group rule.
ExpectedLookups(in) ==
    LET looked_up == SelectSeq(TargetsEntered(in),
                               LAMBDA t : HasTagRule(t) /\ ~HasGroupRule(t))
    IN [n \in 1..Len(looked_up) |-> FiltersOf(looked_up[n])]

InstanceLookups ==
    LET made == SelectSeq(tgOut.calls, LAMBDA c : c.api = "describe_instances")
    IN [n \in 1..Len(made) |-> made[n].arg]

\* C14: the tag rules of one MW target are passed together, as one filter
\* list, to exactly one instance lookup, and the number of instances that
\* match all of them is added once; the tag rules of different MW targets
\* go to different lookups.
C14_OneLookupPerTarget ==
    (TargetRan /\ ListingOf(tgIn).ok) =>
        /\ InstanceLookups = ExpectedLookups(tgIn)
        /\ ~ResolutionRaises(tgIn) =>
              tgOut.ret - SumF([t \in 1..Len(ListingOf(tgIn).val) |->
                                  ExpectedIds(ListingOf(tgIn).val[t])])
              = SumF([t \in 1..Len(ListingOf(tgIn).val) |->
                        IF HasTagRule(ListingOf(tgIn).val[t])
                        THEN Cardinality(TagMatchSet(ListingOf(tgIn).val[t])) ELSE 0])

\* Tag rules Env: [prod] and Role: [web] of one MW target against i1, i2, i3
\* of which i1 and i2 match both: one lookup with both filters, and 2.
C14_Witness ==
    /\ TargetRan
    /\ ListingOf(tgIn) = Ok(<<[Targets |-> <<Rule(<<"tag:", "Env">>, <<"prod">>),
                                             Rule(<<"tag:", "Role">>, <<"web">>)>>]>>)
    /\ TagMatchSet(ListingOf(tgIn).val[1]) = {"i1", "i2"}
    /\ Len(InstanceLookups) = 1 /\ Len(InstanceLookups[1]) = 2
    /\ tgOut.ret = 2


\* C19: the count of a window is the sum of the counts of its MW targets,
\* each resolved as a window of its own, with no de-duplication across MW
\* targets: an instance reachable through two MW targets is counted twice.
C19_SumOverTargets ==
    (TargetRan /\ ~ResolutionRaises(tgIn)) =>
        tgOut.ret = SumF([t \in 1..Len(ListingOf(tgIn).val) |->
                            CountFor(tgIn, <<ListingOf(tgIn).val[t]>>)])

\* Two MW targets that both select Role=web: i1 and i2 are counted twice.
C19_Witness ==
    /\ TargetRan /\ ~ResolutionRaises(tgIn)
    /\ ListingOf(tgIn).val = <<[Targets |-> <<Rule(<<"tag:", "Role">>, <<"web">>)>>],
                               [Targets |-> <<Rule(<<"tag:", "Role">>, <<"web">>)>>]>>
    /\ UnionOfIds(tgIn) = {"i1", "i2"}
    /\ tgOut.ret = 4


\* A rule whose key is none of the three known kinds.
IsUnsupportedRule(rule) == ~IsIdsRule(rule) /\ ~IsTagRule(rule) /\ ~IsGroupRule(rule)

\* The listing with the rules of unknown kind removed.
WithoutUnsupported(mw_targets) ==
    [t \in 1..Len(mw_targets) |->
        [Targets |-> SelectSeq(mw_targets[t].Targets, LAMBDA rule : ~IsUnsupportedRule(rule))]]

HasUnsupportedRule(in) == AnyTarget(in, IsUnsupportedRule)

\* C20: a rule whose key is none of the instance-id list, a tag-prefixed key
\* or the resource-group reference adds nothing and does not fail the
\* window: count and error are those of the window without that rule.
C20_UnsupportedRuleSkipped ==
    (TargetRan /\ ListingOf(tgIn).ok /\ HasUnsupportedRule(tgIn)) =>
        LET without == get_target_count(
                           WithListing(tgIn, WithoutUnsupported(ListingOf(tgIn).val)),
                           tgIn.window_id)
        IN /\ tgOut.ret = without.ret
           /\ tgOut.logged_error = without.logged_error
           /\ tgOut.logged_error => ResolutionRaises(tgIn)

\* An instance-id rule followed by a rule of unknown kind: 2, and no error.
C20_Witness ==
    /\ TargetRan
    /\ ListingOf(tgIn) = Ok(<<[Targets |-> <<Rule(KeyInstanceIds, <<"i1", "i2">>),
                                             Rule(<<"WindowTargetIds">>, <<"x">>)>>]>>)
    /\ tgOut.ret = 2
    /\ ~tgOut.logged_error


(***************************************************************************)
(* Further properties of the post-patch phase (checked under SpecPost).    *)
(***************************************************************************)
\* C15: when the store that was read holds no pre-patch row, the phase has
\* exited with status 0 after exactly one role assumption, the one made to
\* read the store: no status resolution, no further role assumption, no
\* write to the store and no email.
C15_EmptyStoreExitsEarly ==
    (post.store_read /\ post.store = <<>>) =>
        /\ post.pc = "exited" /\ post.exit_status = 0
        /\ Len(post.assume_log) = 1
        /\ post.assume_log[1].at = "read" /\ post.assume_log[1].ok
        /\ TripleOfCall(post.assume_log[1]) = TripleOfCall(SharedAccount)
        /\ post.idx = 0
        /\ post.use_log = <<>> /\ post.resolved = <<>> /\ post.post_rows = <<>>
        /\ post.written = NothingWritten
        /\ ~post.email

\* The store was read and is empty.
C15_Witness ==
    /\ post.store_read /\ post.store = <<>>
    /\ post.pc = "exited"
    /\ Len(post.assume_log) = 1


(***************************************************************************)
(* Further properties of the pre-patch phase (checked under SpecPre).      *)
(***************************************************************************)
PreRowFields ==
    {"AccountId", "Region", "RoleName", "MaintenanceWindowId",
     "MaintenanceWindowName", "TargetInstanceCount"}

\* C16: every row the pre-patch phase emits carries the six fields account
\* id, region, role name, window id, window name and target instance count,
\* so that the post-patch phase finds in each row it reads back the account,
\* role and region it needs to obtain a session.
C16_RowsCarrySixFields ==
    \A k \in 1..Len(pre.output_rows) :
        /\ PreRowFields \subseteq DOMAIN pre.output_rows[k]
        /\ RowKeysRead \subseteq DOMAIN pre.output_rows[k]


PostRowFields == PreRowFields \cup {"Success", "Failure"}

\* C17: when the phase completes it has produced exactly one row per
\* pre-patch row read, in the same order, each with the six pre-patch fields
\* copied unchanged and with success and failure as non-negative integers;
\* the pre-patch rows in the store are as they were read.
C17_OneRowPerPrePatchRow ==
    post.written.done =>
        /\ post.written.rows = post.post_rows
        /\ Len(post.written.rows) = Len(post.rows)
        /\ \A k \in 1..Len(post.rows) :
              LET out == post.written.rows[k]
                  in == post.rows[k]
              IN /\ DOMAIN out = PostRowFields
                 /\ \A f \in PreRowFields : out[f] = in[f]
                 /\ out.Success \in Nat /\ out.Failure \in Nat
        /\ post.written.key # PrePatchKey
        /\ post.store = post.rows

\* Four rows were read, the report was written and the email sent.
C17_Witness ==
    /\ post.pc = "exited" /\ post.email /\ post.exit_status = 0
    /\ post.written.done
    /\ Len(post.rows) = 4 /\ Len(post.written.rows) = 4
    /\ post.written.rows[4].Success = 1 /\ post.written.rows[4].Failure = 1


(***************************************************************************)
(* Further properties of get_patch_status_counts (checked under            *)
(* SpecStatus).                                                            *)
(***************************************************************************)
\* The answer to a lookup of the call log holds a failing fetch.
LookupRaised(call) ==
    CASE call.api = "describe_maintenance_window_executions" ->
            ~stIn.api.executions[call.arg].ok
      [] call.api = "describe_maintenance_window_execution_tasks" ->
            ~stIn.api.tasks[call.arg].ok
      [] call.api = "describe_maintenance_window_execution_task_invocations" ->
            \E k \in 1..Len(stIn.api.invocations[call.arg]) :
                ~stIn.api.invocations[call.arg][k].ok
      [] OTHER ->
            \E k \in 1..Len(stIn.api.commands[call.arg]) : ~stIn.api.commands[call.arg][k].ok

RaisedLookups == {k \in 1..Len(stOut.calls) : LookupRaised(stOut.calls[k])}

\* C18: when a lookup made by the resolver raises, the caller receives no
\* result: the resolver returns, and what it returns is no pair, neither a
\* partial tally nor (0, 0).
C18_RaisedLookupGivesNoResult ==
    (StatusRan /\ RaisedLookups # {}) =>
        /\ stOut.ret = None
        /\ stOut.ret.kind # "pair"

\* The result fetch of command c1 fails after pages with a success and a
\* failure were tallied.
C18_Witness ==
    /\ StatusRan
    /\ stIn.api.commands["c1"] = <<Ok(<<Result(1, "Success")>>), Ok(<<Result(2, "Failed")>>), Raised>>
    /\ stOut.calls[Len(stOut.calls)] = Call("list_command_invocations", "c1")
    /\ stOut.ret = None


\* C21: for a window id that does not start with "mw-" the resolver returns
\* (0, 0) at once: no execution, task, invocation or command lookup is made.
C21_MalformedIdNoLookup ==
    (StatusRan /\ (Len(stIn.window_id) < 3 \/ SubSeq(stIn.window_id, 1, 3) # <<"m", "w", "-">>)) =>
        /\ stOut.ret = Pair(0, 0)
        /\ stOut.calls = <<>>

\* The id "mw1" of a window that has an execution with results.
C21_Witness ==
    /\ StatusRan
    /\ stIn.window_id = <<"m", "w", "1">>
    /\ Listing = Ok(<<Exec("e1", 5)>>)
    /\ stIn.api.tasks["e1"] = Ok(<<Task(PatchTaskArn, "t1")>>)
    /\ stOut.ret = Pair(0, 0)


\* C22: with a non-empty execution listing, the tasks enumerated are those of
\* the listed execution with the maximum start time, the earliest in listing
\* order among equals; no lookup names any other execution.
C22_LatestExecutionOnly ==
    (StatusRan /\ ExecutionSelected) =>
        /\ Len(stOut.calls) >= 2
        /\ stOut.calls[2] = Call("describe_maintenance_window_execution_tasks", SelectedExecution)
        /\ \A i \in 1..Len(stOut.calls) :
            /\ stOut.calls[i].api = "describe_maintenance_window_execution_tasks" => i = 2
            /\ stOut.calls[i].api = "describe_maintenance_window_execution_task_invocations" =>
                    stOut.calls[i].arg[1] = SelectedExecution

\* Two executions with the same start time, e2 listed first: e2's task t2 is
\* enumerated and e1 is never named.
C22_Witness ==
    /\ StatusRan
    /\ stIn.window_id = Wid1
    /\ Listing = Ok(<<Exec("e2", 5), Exec("e1", 5)>>)
    /\ Len(stOut.calls) >= 2
    /\ stOut.calls[2] = Call("describe_maintenance_window_execution_tasks", "e2")
    /\ \E i \in 1..Len(stOut.calls) :
            /\ stOut.calls[i].api = "describe_maintenance_window_execution_task_invocations"
            /\ stOut.calls[i].arg = <<"e2", "t2">>
    /\ stOut.ret = Pair(0, 2)


SelectedTasks == stIn.api.tasks[SelectedExecution]

PatchTaskIds ==
    {SelectedTasks.val[t].TaskExecutionId :
        t \in {t \in 1..Len(SelectedTasks.val) : SelectedTasks.val[t].TaskArn = "AWS-RunPatchBaseline"}}

InvocationLookups ==
    {n \in 1..Len(stOut.calls) :
        stOut.calls[n].api = "describe_maintenance_window_execution_task_invocations"}

\* C23: invocations are enumerated only for the tasks of the selected
\* execution whose TaskArn is "AWS-RunPatchBaseline"; any other task causes no
\* lookup and adds nothing to either counter, whatever its invocations and
\* their command results are.
C23_OnlyPatchTasks ==
    (StatusRan /\ ExecutionSelected /\ SelectedTasks.ok) =>
        /\ \A n \in InvocationLookups : stOut.calls[n].arg[2] \in PatchTaskIds
        /\ PatchTaskIds = {} =>
              /\ stOut.ret = Pair(0, 0)
              /\ Len(stOut.calls) = 2
        /\ stOut.ret.kind = "pair" =>
              /\ Cardinality(InvocationLookups) =
                    Cardinality({t \in 1..Len(SelectedTasks.val) :
                                    SelectedTasks.val[t].TaskArn = "AWS-RunPatchBaseline"})
              /\ WrongShapePositions = {} =>
                    stOut.ret.success + stOut.ret.failure =
                        Cardinality(ResultPositions({"Success"} \cup FailureStatuses))

\* A shell-script task t2 whose Install invocation has a failed result, then
\* the patch task t1: only t1 is enumerated and the result is t1's (1, 1).
C23_Witness ==
    /\ StatusRan
    /\ stIn.window_id = Wid1
    /\ Listing = Ok(<<Exec("e1", 5)>>)
    /\ SelectedTasks = Ok(<<Task("AWS-RunShellScript", "t2"), Task("AWS-RunPatchBaseline", "t1")>>)
    /\ stIn.api.invocations[<<"e1", "t2">>] = OkPages(<<<<Inv(InstallText, "c2")>>>>)
    /\ stIn.api.commands["c2"] = OkPages(<<<<Result(3, "Failed")>>>>)
    /\ \A n \in InvocationLookups : stOut.calls[n].arg = <<"e1", "t1">>
    /\ stOut.ret = Pair(1, 1)


\* Every answer of the client is a value: no lookup raises.
RECURSIVE AllOk(_)
AllOk(pages) == pages = <<>> \/ (Head(pages).ok /\ AllOk(Tail(pages)))

NoLookupRaises ==
    /\ Listing.ok
    /\ \A e \in DOMAIN stIn.api.tasks : stIn.api.tasks[e].ok
    /\ \A k \in DOMAIN stIn.api.invocations : AllOk(stIn.api.invocations[k])
    /\ \A c \in DOMAIN stIn.api.commands : AllOk(stIn.api.commands[c])

\* An invocation whose Parameters is a non-empty string that json.loads
\* rejects.
IsUnparsable(inv) ==
    /\ inv.Parameters.raw = "text"
    /\ inv.Parameters.text # <<>>
    /\ json_loads(inv.Parameters.text) = [t |-> "JSONDecodeError"]

UnparsablePositions == {pos \in InvPositions : IsUnparsable(InvAt(pos))}

\* C24: an invocation whose payload string fails to parse is excluded from
\* both counters and causes no command lookup; the resolution goes on and
\* returns the tally of the other invocations.
C24_UnparsablePayloadExcluded ==
    (StatusRan /\ ExecutionSelected /\ NoLookupRaises
        /\ \A pos \in InvPositions : IsUnparsable(InvAt(pos)) \/ HasOperationList(InvAt(pos))) =>
        /\ stOut.ret.kind = "pair"
        /\ stOut.ret.success = Cardinality(ResultPositions({"Success"}))
        /\ stOut.ret.failure = Cardinality(ResultPositions(FailureStatuses))
        /\ Cardinality(CommandLookups) = Cardinality(InvPositions \ UnparsablePositions)
                                          - Cardinality({pos \in InvPositions :
                                                IsNonInstallInvocation(InvAt(pos))
                                                \/ (IsInstallInvocation(InvAt(pos))
                                                    /\ InvAt(pos).ExecutionId = NoCommand)})

\* An unparsable payload whose command c1 has a success and a failure, then
\* an Install invocation of command c2 with one failure: (0, 1).
C24_Witness ==
    /\ StatusRan
    /\ stIn.window_id = Wid1
    /\ stIn.api.invocations[<<"e1", "t1">>] =
          OkPages(<<<<Inv(Text(<<"{", "parameters">>), "c1"), Inv(InstallText, "c2")>>>>)
    /\ stIn.api.commands["c1"] = OkPages(<<<<Result(1, "Success"), Result(2, "Failed")>>>>)
    /\ stIn.api.commands["c2"] = OkPages(<<<<Result(3, "Failed")>>>>)
    /\ UnparsablePositions = {<<1, 1, 1>>}
    /\ stOut.ret = Pair(0, 1)
    /\ Cardinality(CommandLookups) = 1


\* C25: an invocation whose payload parses but is not an object holding an
\* object "parameters" holding a list "Operation" is excluded like an
\* unparsable one: the resolution returns a result, no command lookup is made
\* for that invocation, and the counters are those of the other invocations.
C25_WrongShapeExcluded ==
    (StatusRan /\ ExecutionSelected /\ NoLookupRaises /\ WrongShapePositions # {}) =>
        /\ stOut.ret.kind = "pair"
        /\ stOut.ret.success = Cardinality(ResultPositions({"Success"}))
        /\ stOut.ret.failure = Cardinality(ResultPositions(FailureStatuses))
        /\ \A pos \in WrongShapePositions :
              \A n \in CommandLookups : stOut.calls[n].arg # InvAt(pos).ExecutionId


\* The Install invocations that carry no command execution id.
MissingIdPositions ==
    {pos \in InvPositions : IsInstallInvocation(InvAt(pos)) /\ InvAt(pos).ExecutionId = ""}

\* C26: an Install invocation without a command execution id is skipped: no
\* command lookup is made for it, it changes neither counter, and the
\* invocations around it are tallied as usual.
C26_MissingCommandIdSkipped ==
    (StatusRan /\ ExecutionSelected /\ NoLookupRaises /\ MissingIdPositions # {}
        /\ \A pos \in InvPositions : HasOperationList(InvAt(pos))) =>
        /\ stOut.ret.kind = "pair"
        /\ \A n \in CommandLookups : stOut.calls[n].arg # ""
        /\ Cardinality(CommandLookups) =
              Cardinality({pos \in InvPositions : IsInstallInvocation(InvAt(pos))})
              - Cardinality(MissingIdPositions)
        /\ stOut.ret.success = Cardinality(ResultPositions({"Success"}))
        /\ stOut.ret.failure = Cardinality(ResultPositions(FailureStatuses))

\* An Install invocation without a command id, then one of command c1 with
\* a success and a failure: one command lookup and (1, 1).
C26_Witness ==
    /\ StatusRan
    /\ stIn.window_id = Wid1
    /\ stIn.api.invocations[<<"e1", "t1">>] =
          OkPages(<<<<Inv(InstallText, ""), Inv(InstallText, "c1")>>>>)
    /\ stIn.api.commands["c1"] = OkPages(<<<<Result(1, "Success"), Result(2, "Failed")>>>>)
    /\ MissingIdPositions = {<<1, 1, 1>>}
    /\ Cardinality(CommandLookups) = 1
    /\ stOut.ret = Pair(1, 1)


(***************************************************************************)
(* The client that writes the report.                                      *)
(***************************************************************************)
IsSharedSession(s) ==
    /\ ~s.none
    /\ s.account_id = SharedAccount.account_id
    /\ s.role_name = SharedAccount.role_name
    /\ s.region = SharedAccount.region

\* C28: whenever the post-patch phase has written its rows to the report
\* store, the client that made the write belongs to a session obtained for
\* the shared account, never to the session of a fleet account of a row.
C28_WriteBySharedClient ==
    (post.pc # "idle" /\ post.written.done) => IsSharedSession(post.written.by)


(***************************************************************************)
(* SpecMain: the __main__ blocks.  The standalone script runs main and     *)
(* ends; the combined script runs pre_patch_notification and, when that    *)
(* returns, post_patch_function on the store the pre-patch phase wrote.    *)
(***************************************************************************)
\* csv.DictWriter then csv.DictReader: every value comes back as text.
ReadCsv(rows) ==
    [k \in 1..Len(rows) |-> [rows[k] EXCEPT !.TargetInstanceCount = ToString(@)]]

\* "result = pre_patch_notification()" has returned; post_patch_function()
\* is called, on the store as the pre-patch phase left it.
MainPost ==
    /\ pre.script = Combined
    /\ pre.pc = "done"
    /\ post = Idle
    /\ post' = PostBegin(IF pre.written.done THEN ReadCsv(pre.written.rows) ELSE <<>>)
    /\ UNCHANGED <<stIn, stOut, tgIn, tgOut, pre>>

InitMain ==
    /\ \E script \in {Standalone, Combined}, n \in 0..MaxAccounts : pre = PreBegin(script, n)
    /\ stIn = Idle /\ stOut = Idle /\ tgIn = Idle /\ tgOut = Idle /\ post = Idle

NextMain == NextPre \/ MainPost \/ NextPost

SpecMain == InitMain /\ [][NextMain]_vars

\* The loop over the accounts has ended and no window matched.
NoWindowMatched ==
    /\ pre.pc = "accounts"
    /\ pre.ai = Len(pre.pre_patch_rows)
    /\ pre.output_rows = <<>>

\* C27: when no window of any account matches, the pre-patch phase takes
\* the early exit: the process ends with status 0 and zero records, nothing
\* is written to the store, no email is sent, no role is assumed for the
\* shared account, and the post-patch phase is not started.
C27_NoMatchExitsEarly ==
    [][NoWindowMatched =>
        /\ pre'.pc \in {"done", "exited"}
        /\ pre'.exit_status = 0
        /\ pre'.output_rows = <<>>
        /\ ~pre'.written.done
        /\ ~pre'.email
        /\ pre'.assume_log = pre.assume_log
        /\ \A k \in 1..Len(pre'.assume_log) : pre'.assume_log[k].at = "row"
        /\ post' = Idle]_vars

\* The combined script has listed windows in its accounts, none matched, and
\* the process has exited with status 0.
C27_Witness ==
    /\ pre.script = "combined_pre_post_patching.py"
    /\ pre.pc = "exited" /\ pre.exit_status = 0
    /\ pre.ai = 2 /\ pre.listed >= 2
    /\ pre.output_rows = <<>>
    /\ ~pre.written.done /\ ~pre.email


\* The instant of a NextExecutionTime in hours UTC, when it is a time.
IsTime(t) == ~t.absent /\ t.suffix \in {"Z", "", "+02:00"}
UtcHours(t) == IF t.suffix = "+02:00" THEN t.hours - 2 ELSE t.hours

\* A window that has a NextExecutionTime of today (UTC) and a name that
\* starts with "mmpatching".
RunsTodayWindow(mw) ==
    /\ IsTime(mw.NextExecutionTime)
    /\ Len(mw.Name) >= 1 /\ mw.Name[1] = "mmpatching"
    /\ 24 * (NowUtc \div 24) <= UtcHours(mw.NextExecutionTime)
    /\ UtcHours(mw.NextExecutionTime) < 24 * (NowUtc \div 24) + 24

\* C29: each listed window that has a NextExecutionTime of today (UTC) and a
\* name starting with "mmpatching" adds exactly one row, for its account and
\* itself, at the end of the rows; every other window, one whose time cannot
\* be evaluated included, adds none and ends nothing; no other step changes
\* the rows; so the rows are in account order and, within an account, in
\* listing order.
C29_OneRowPerWindowOfToday ==
    [][/\ Len(pre'.output_rows) = Len(pre'.visited)
       /\ \A k, l \in 1..Len(pre'.visited) : k < l => pre'.visited[k].ai <= pre'.visited[l].ai
       /\ IF pre.pc = "windows"
          THEN /\ pre'.wi = pre.wi + 1
               /\ pre'.ai = pre.ai
               /\ pre'.pc \in {"windows", "accounts"}
               /\ IF RunsTodayWindow(pre'.last_mw)
                  THEN /\ Len(pre'.output_rows) = Len(pre.output_rows) + 1
                       /\ SubSeq(pre'.output_rows, 1, Len(pre.output_rows)) = pre.output_rows
                       /\ LET new == pre'.output_rows[Len(pre'.output_rows)]
                              row == pre.pre_patch_rows[pre.ai]
                          IN /\ new.AccountId = row.account_id
                             /\ new.Region = row.region
                             /\ new.MaintenanceWindowId = pre'.last_mw.WindowId
                             /\ new.MaintenanceWindowName = pre'.last_mw.Name
                             /\ pre'.visited[Len(pre'.visited)].ai = pre.ai
                  ELSE pre'.output_rows = pre.output_rows
          ELSE /\ pre'.output_rows = pre.output_rows
               /\ pre'.ai \in {pre.ai, pre.ai + 1}]_vars

\* The first account lists two windows of today, the second a window whose
\* time is the first instant of tomorrow: two rows, in listing order.
C29_Witness ==
    /\ pre.pc # "idle"
    /\ pre.ai = 2
    /\ pre.last_mw = Window(Wid1, <<"mmpatching", "-e">>, IsoTime(48, ""))
    /\ Len(pre.output_rows) = 2
    /\ pre.output_rows[1].MaintenanceWindowName = <<"mmpatching", "-a">>
    /\ pre.output_rows[2].MaintenanceWindowName = <<"mmpatching", "-b">>
    /\ pre.output_rows[2].AccountId = "111"


\* C30: in the combined run the post-patch phase starts only after the
\* pre-patch phase has returned successfully with at least one row written
\* to the store; when the pre-patch phase has exited, with status 0 because
\* no window matched or with status 1 because it failed, the process has
\* ended: the post-patch phase has not started, and nothing more happens.
C30_PostOnlyAfterPreWrote ==
    /\ (pre.pc # "idle" /\ post.pc # "idle") =>
          /\ pre.script = "combined_pre_post_patching.py"
          /\ pre.pc = "done"
          /\ pre.result = [status |-> "success", records_written |-> Len(pre.output_rows)]
          /\ pre.output_rows # <<>>
          /\ pre.written.done /\ pre.written.rows = pre.output_rows
          /\ pre.email
    /\ (pre.pc # "idle" /\ pre.pc \in {"exited", "crashed"}) =>
          /\ post.pc = "idle"
          /\ pre.exit_status = (IF "raised" \in DOMAIN pre.result THEN 1 ELSE 0)
          /\ pre.exit_status = 0 => pre.output_rows = <<>> /\ pre.ai = Len(pre.pre_patch_rows)
          /\ ~ENABLED NextMain

\* The pre-patch phase wrote two rows and returned; the post-patch phase
\* has read them from the store and is in its row loop.
C30_Witness ==
    /\ pre.pc = "done" /\ pre.script = "combined_pre_post_patching.py"
    /\ Len(pre.written.rows) = 2
    /\ post.pc = "loop"
    /\ Len(post.rows) = 2
    /\ post.rows[1].RoleName = "RoleA"
    /\ post.rows[1].TargetInstanceCount = "2"


====
